---------------------------- MODULE Spec2Model ----------------------------
(***************************************************************************)
(* A model of renpyfmt's front end: the ATL property-conflict accumulator  *)
(* (atl.rs), the block builder and the logical-line extractor (main.rs),   *)
(* the cursor/lexer (lexer.rs), the statement grammars and the ATL         *)
(* sub-parser (parser.rs) and the renderer (formatter.rs).                 *)
(*                                                                         *)
(* Text is a sequence of strings.  In the extractor every element is one   *)
(* character.  In the lexer every element is one lexeme: a single space,   *)
(* a word, a number, a quoted string or a punctuation character, so that   *)
(* a position counts lexemes where the code counts bytes.  Option<T> is    *)
(* the value itself or None.                                               *)
(***************************************************************************)
EXTENDS Integers, Sequences, FiniteSets, TLC

VARIABLES
    \* RawMultipurpose under a stream of add_property calls (atl.rs)
    properties,     \* rm.properties: sequence of <<name, expr>>
    addprop_rv,     \* what the last add_property returned
    lastProp,       \* the name given to the last add_property
    panicked,       \* parse_atl panicked on the last add_property result
    \* group_logical_lines (main.rs)
    lines,          \* the logical lines given: sequence of <<number, text>>
    grouped,        \* group_logical_lines has run
    gll,            \* the result of group_logical_lines
    \* list_logical_lines (main.rs)
    data,           \* the file's characters, with the two newlines appended
    pos,            \* index of the next character, from 0
    number,         \* current physical line number
    start_number,   \* line number at which the current logical line began
    line,           \* the characters of the current logical line so far
    parendepth,
    result,         \* the logical lines emitted: sequence of <<number, text>>
    lll,            \* where list_logical_lines stands: "outer", "inner", "ok" or a failure
    breaks,         \* history: the positions of the newlines that ended a logical line
    bail,           \* the error list_logical_lines returned, if it did: message and origin
    \* the cursor under its primitives (lexer.rs)
    cursor,         \* the Lexer
    saved,          \* the LexerState a checkpoint() returned, if one was taken
    snapshot,       \* history: what could be seen of the cursor at the checkpoint
    sinceCp,        \* history: the kinds of calls made since the checkpoint
    lexop,          \* the kind of the last call
    \* a line of dialogue under Say::parse (parser.rs)
    sayLine,        \* the text of the line
    sayResult,      \* what Say::parse gave: the cursor and the nodes, once it has run
    \* an ATL block under parse_atl (parser.rs)
    atlBlock,       \* the block given
    atl,            \* parse_atl's cursor and locals, and where it stands
    atlVisited,     \* history: the line index and position each pass began at
    atlLast,        \* what the last pass gave
    \* the files of a run under main (main.rs)
    files,          \* the files globbed: for each the call its pipeline fails at, or "none"
    leaves,         \* how par_iter split the files: the runs of files handled one after another
    leafAt,         \* for each run, the index of the file it stands at
    done,           \* for each file, the calls of its pipeline that returned; -1 once it panicked
    printed,        \* the files whose rendered text was printed
    exited,         \* how main ended, once it has
    \* a parameter list under parse_parameters (parser.rs)
    signature,      \* the parameters given, as written between the parentheses
    parsedParams,   \* what parse_parameters gave: the cursor and the signature, once it has run
    \* a line under ParseTrie::parse (trie.rs)
    trieLine,       \* the line given
    dispatched,     \* what ParseTrie::parse did with it, once it has run
    \* a nested block under parse_block (parser.rs)
    script,         \* the nested block given
    frames,         \* the calls of parse_block and parse_menu that are running, the innermost last
    outcome,        \* the nodes the outermost parse_block returned, once it has
    failure,        \* the message of the panic that ended the parse, or ""
    \* a show or scene statement under Show::parse and Scene::parse (parser.rs)
    showLine,       \* the statement given: its line and the block under it
    showAt,         \* where Show::parse or Scene::parse stands
    shown,          \* what the statement parsed to, once it has
    \* a script parsed, rendered by format_ast and parsed again (main.rs, formatter.rs)
    firstTree,          \* the tree of the first parse, once it is rendered
    rendered,       \* the lines format_ast gave for it
    renderPanic,    \* the panic that ended format_ast, if one did
    \* a path under munge_filename (main.rs)
    mungePath,      \* the path given: its directories, the stem and the extension of its file name
    munged,         \* what munge_filename gave for it, once it has
    \* a custom statement under UserStatement::parse (parser.rs)
    userScript,     \* the block given: the line of the statement, with or without a block under it and a line after it
    userParsed,     \* what the statement parsed to, once it has
    \* a statement under python_block (lexer.rs)
    pyStatement,    \* the statement given: its line and the block under it
    pyText,         \* what python_block gave for it, once it has run
    \* a file under main's pipeline (main.rs)
    fileGrouped     \* what group_logical_lines gave for the lines of the file, once it has run

propVars == <<properties, addprop_rv, lastProp, panicked>>
gllVars == <<lines, grouped, gll>>
lllVars == <<data, pos, number, start_number, line, parendepth, result, lll, breaks, bail>>
lexVars == <<cursor, saved, snapshot, sinceCp, lexop>>
sayVars == <<sayLine, sayResult>>
atlVars == <<atlBlock, atl, atlVisited, atlLast>>
mainVars == <<files, leaves, leafAt, done, printed, exited>>
paramsVars == <<signature, parsedParams>>
trieVars == <<trieLine, dispatched>>
blkVars == <<script, frames, outcome, failure>>
showVars == <<showLine, showAt, shown>>
roundVars == <<firstTree, rendered, renderPanic>>
nameVars == <<mungePath, munged>>
userVars == <<userScript, userParsed>>
pyVars == <<pyStatement, pyText>>
fileVars == <<fileGrouped>>
vars == <<propVars, gllVars, lllVars, lexVars, sayVars, atlVars, mainVars, paramsVars, trieVars, blkVars, showVars, roundVars, nameVars, userVars, pyVars, fileVars>>

\* what each machine leaves alone
notPropVars == <<gllVars, lllVars, lexVars, sayVars, atlVars, mainVars, paramsVars, trieVars, blkVars, showVars, roundVars, nameVars, userVars, pyVars, fileVars>>
notGllVars == <<propVars, lllVars, lexVars, sayVars, atlVars, mainVars, paramsVars, trieVars, blkVars, showVars, roundVars, nameVars, userVars, pyVars, fileVars>>
notLllVars == <<propVars, gllVars, lexVars, sayVars, atlVars, mainVars, paramsVars, trieVars, blkVars, showVars, roundVars, nameVars, userVars, pyVars, fileVars>>
notLexVars == <<propVars, gllVars, lllVars, sayVars, atlVars, mainVars, paramsVars, trieVars, blkVars, showVars, roundVars, nameVars, userVars, pyVars, fileVars>>
notSayVars == <<propVars, gllVars, lllVars, lexVars, atlVars, mainVars, paramsVars, trieVars, blkVars, showVars, roundVars, nameVars, userVars, pyVars, fileVars>>
notAtlVars == <<propVars, gllVars, lllVars, lexVars, sayVars, mainVars, paramsVars, trieVars, blkVars, showVars, roundVars, nameVars, userVars, pyVars, fileVars>>
notMainVars == <<propVars, gllVars, lllVars, lexVars, sayVars, atlVars, paramsVars, trieVars, blkVars, showVars, roundVars, nameVars, userVars, pyVars, fileVars>>
notParamsVars == <<propVars, gllVars, lllVars, lexVars, sayVars, atlVars, mainVars, trieVars, blkVars, showVars, roundVars, nameVars, userVars, pyVars, fileVars>>
notTrieVars == <<propVars, gllVars, lllVars, lexVars, sayVars, atlVars, mainVars, paramsVars, blkVars, showVars, roundVars, nameVars, userVars, pyVars, fileVars>>
notBlkVars == <<propVars, gllVars, lllVars, lexVars, sayVars, atlVars, mainVars, paramsVars, trieVars, showVars, roundVars, nameVars, userVars, pyVars, fileVars>>
notShowVars == <<propVars, gllVars, lllVars, lexVars, sayVars, atlVars, mainVars, paramsVars, trieVars, blkVars, roundVars, nameVars, userVars, pyVars, fileVars>>
notRoundVars == <<propVars, gllVars, lllVars, lexVars, sayVars, atlVars, mainVars, paramsVars, trieVars, blkVars, showVars, nameVars, userVars, pyVars, fileVars>>
notNameVars == <<propVars, gllVars, lllVars, lexVars, sayVars, atlVars, mainVars, paramsVars, trieVars, blkVars, showVars, roundVars, userVars, pyVars, fileVars>>
notAtlShowVars == <<propVars, gllVars, lllVars, lexVars, sayVars, mainVars, paramsVars, trieVars, blkVars, roundVars, nameVars, userVars, pyVars, fileVars>>
notBlkRoundVars == <<propVars, gllVars, lllVars, lexVars, sayVars, atlVars, mainVars, paramsVars, trieVars, showVars, nameVars, userVars, pyVars, fileVars>>
notUserVars == <<propVars, gllVars, lllVars, lexVars, sayVars, atlVars, mainVars, paramsVars, trieVars, blkVars, showVars, roundVars, nameVars, pyVars, fileVars>>
notPyVars == <<propVars, gllVars, lllVars, lexVars, sayVars, atlVars, mainVars, paramsVars, trieVars, blkVars, showVars, roundVars, nameVars, userVars, fileVars>>
notFileVars == <<propVars, gllVars, lllVars, lexVars, sayVars, atlVars, mainVars, paramsVars, trieVars, blkVars, showVars, roundVars, nameVars, userVars, pyVars>>
notBlkFileVars == <<propVars, gllVars, lllVars, lexVars, sayVars, atlVars, mainVars, paramsVars, trieVars, showVars, roundVars, nameVars, userVars, pyVars>>

None == "<none>"
Filename == "f.rpy"

\* ---------------------------------------------------------------- helpers

\* Option<T>: <<>> for None and <<v>> for Some(v)
Some(v) == <<v>>
Nothing == <<>>
IsSome(o) == o # <<>>
Unwrap(o) == o[1]

\* let v = ...: the value is worked out once and handed to what follows
Bind(v, F(_)) == F(v)

Last(s) == s[Len(s)]

Range(s) == {s[i] : i \in 1..Len(s)}

RECURSIVE SeqsUpTo(_, _)
\* all sequences over S of length at most n
SeqsUpTo(S, n) ==
    IF n = 0 THEN {<<>>}
    ELSE LET shorter == SeqsUpTo(S, n - 1)
         IN shorter \cup {Append(s, x) : s \in {t \in shorter : Len(t) = n - 1}, x \in S}

RECURSIVE Newlines(_)
\* the number of newline characters of t
Newlines(t) == IF Len(t) = 0 THEN 0 ELSE (IF t[1] = "\n" THEN 1 ELSE 0) + Newlines(Tail(t))

RECURSIVE join(_, _)
\* Vec<String>::join
join(ss, sep) ==
    IF Len(ss) = 0 THEN <<>>
    ELSE IF Len(ss) = 1 THEN ss[1]
    ELSE ss[1] \o sep \o join(Tail(ss), sep)

\* ------------------------------------------------- atl.rs: RawMultipurpose

MaxProps == 3

\* the property names add_property is driven with
PropNames == {"pos", "xpos", "ypos", "angle", "radius", "anchorangle",
              "anchorradius", "xanchor", "zoom"}

PropExprs == {"0"}

\* RawMultipurpose::new: incompatible_props
incompatible_props ==
    [alignaround |-> <<"xaround", "yaround", "xanchoraround", "yanchoraround">>,
     align |-> <<"xanchor", "yanchor", "xpos", "ypos">>,
     anchor |-> <<"xanchor", "yanchor">>,
     angle |-> <<"xpos", "ypos">>,
     anchorangle |-> <<"xangle", "yangle">>,
     around |-> <<"xaround", "yaround", "xanchoraround", "yanchoraround">>,
     offset |-> <<"xoffset", "yoffset">>,
     pos |-> <<"xpos", "ypos">>,
     radius |-> <<"xpos", "ypos">>,
     anchorradius |-> <<"xanchor", "yanchor">>,
     size |-> <<"xsize", "ysize">>,
     xalign |-> <<"xpos", "xanchor">>,
     xcenter |-> <<"xpos", "xanchor">>,
     xycenter |-> <<"xpos", "ypos", "xanchor", "yanchor">>,
     xysize |-> <<"xsize", "ysize">>,
     yalign |-> <<"ypos", "yanchor">>,
     ycenter |-> <<"ypos", "yanchor">>]

\* RawMultipurpose::new: compatible_pairs
compatible_pairs == <<(<<"radius", "angle">>), (<<"anchorradius", "anchorangle">>)>>

\* self.incompatible_props.get(name).unwrap_or(&vec![name])
InteractingSet(name) ==
    IF name \in DOMAIN incompatible_props THEN incompatible_props[name] ELSE <<name>>

RECURSIVE ScanOldProp(_, _, _, _)
\* the loop over self.properties: the last old property whose set holds all of newly_set
ScanOldProp(props, i, newly_set, old_prop) ==
    IF i > Len(props) THEN old_prop
    ELSE LET old == props[i][1]
             iprops == InteractingSet(old)
         IN ScanOldProp(props, i + 1, newly_set,
                IF \A x \in Range(newly_set) : x \in Range(iprops) THEN old ELSE old_prop)

RECURSIVE WaivePairs(_, _, _)
\* the loop over self.compatible_pairs, clearing old_prop on a pair inside {old_prop, name}
WaivePairs(i, pair, old_prop) ==
    IF i > Len(compatible_pairs) THEN old_prop
    ELSE WaivePairs(i + 1, pair,
            IF \A x \in Range(compatible_pairs[i]) : x \in pair THEN None ELSE old_prop)

\* RawMultipurpose::add_property: the value returned
AddPropertyResult(props, name) ==
    LET old_prop == ScanOldProp(props, 1, InteractingSet(name), None)
    IN IF old_prop # None THEN WaivePairs(1, {old_prop, name}, old_prop) ELSE None

PropInit ==
    /\ properties = <<>>
    /\ addprop_rv = None
    /\ lastProp = None
    /\ panicked = FALSE

PropIdle == PropInit

\* parse_atl's property branch: rm.add_property(prop, expr), then the panic on a
\* returned name ("given a value more than once" / "conflict with each other")
AddProperty(name, expr) ==
    /\ ~panicked
    /\ Len(properties) < MaxProps
    /\ properties' = Append(properties, <<name, expr>>)
    /\ addprop_rv' = AddPropertyResult(properties, name)
    /\ lastProp' = name
    /\ panicked' = (addprop_rv' # None)
    /\ UNCHANGED notPropVars

\* -------------------------------------------- main.rs: group_logical_lines

MaxLines == 4
MaxIndent == 2

Spaces(n) == [i \in 1..n |-> " "]

RECURSIVE DepthFrom(_, _)
\* depth_split's loop: the count of leading spaces
DepthFrom(text, index) ==
    IF index <= Len(text) /\ text[index] = " " THEN DepthFrom(text, index + 1) + 1 ELSE 0

\* depth_split: (depth, rest)
depth_split(text) ==
    LET depth == DepthFrom(text, 1)
    IN <<depth, SubSeq(text, depth + 1, Len(text))>>

RECURSIVE gll_core(_, _, _)
RECURSIVE gll_loop(_, _, _, _, _)
RECURSIVE gll_loop_unchecked(_, _, _, _, _)
\* gll_loop without its comparison of the line's depth to the block's depth
gll_loop_unchecked(ls, idx, min_depth, depth, blocks_acc) ==
    IF idx > Len(ls) THEN [ok |-> TRUE, err |-> 0, blocks |-> blocks_acc, idx |-> idx]
    ELSE LET line_number == ls[idx][1]
             ds == depth_split(ls[idx][2])
             line_depth == ds[1]
             d == IF depth = <<>> THEN line_depth ELSE depth[1]
         IN IF line_depth < min_depth
            THEN [ok |-> TRUE, err |-> 0, blocks |-> blocks_acc, idx |-> idx]
            ELSE LET sub == gll_core(ls, idx + 1, d + 1)
                 IN IF ~sub.ok THEN sub
                    ELSE gll_loop_unchecked(ls, sub.idx, min_depth, <<d>>,
                            Append(blocks_acc, [filename |-> Filename, number |-> line_number,
                                            text |-> ds[2], block |-> sub.blocks]))

\* the while loop of gll_core; idx is 1-based here, and depth (an Option<usize>)
\* is <<>> for None and <<d>> for Some(d)
gll_loop(ls, idx, min_depth, depth, blocks_acc) ==
    IF idx > Len(ls) THEN [ok |-> TRUE, err |-> 0, blocks |-> blocks_acc, idx |-> idx]
    ELSE LET line_number == ls[idx][1]
             ds == depth_split(ls[idx][2])
             line_depth == ds[1]
             d == IF depth = <<>> THEN line_depth ELSE depth[1]
         IN IF line_depth < min_depth
            THEN [ok |-> TRUE, err |-> 0, blocks |-> blocks_acc, idx |-> idx]
            ELSE IF d # line_depth
            THEN [ok |-> FALSE, err |-> line_number, blocks |-> <<>>, idx |-> idx]
            ELSE LET sub == gll_core(ls, idx + 1, d + 1)
                 IN IF ~sub.ok THEN sub
                    ELSE gll_loop(ls, sub.idx, min_depth, <<d>>,
                            Append(blocks_acc, [filename |-> Filename, number |-> line_number,
                                            text |-> ds[2], block |-> sub.blocks]))

\* gll_core(lines, i, min_depth)
gll_core(ls, i, min_depth) == gll_loop(ls, i, min_depth, <<>>, <<>>)

\* group_logical_lines; lines.first().unwrap() panics on an empty list
group_logical_lines(ls) ==
    IF Len(ls) = 0 THEN [ok |-> FALSE, err |-> 0, blocks |-> <<>>, idx |-> 1, panic |-> TRUE]
    ELSE IF depth_split(ls[1][2])[1] # 0
    THEN [ok |-> FALSE, err |-> ls[1][1], blocks |-> <<>>, idx |-> 1, panic |-> FALSE]
    ELSE LET r == gll_core(ls, 1, 0)
         IN [ok |-> r.ok, err |-> r.err, blocks |-> r.blocks, idx |-> r.idx, panic |-> FALSE]

\* the logical lines the builder is given: line i has number i and text
\* "x" indented by some depth
GllInputs ==
    {[i \in 1..Len(ds) |-> <<i, Spaces(ds[i]) \o <<"x">> >>] :
        ds \in SeqsUpTo(0..MaxIndent, MaxLines) \ {<<>>}}

\* the value of gll before group_logical_lines has run
GllNotRun == [ok |-> FALSE, err |-> 0, blocks |-> <<>>, idx |-> 0, panic |-> FALSE]

GllInit ==
    /\ lines \in GllInputs
    /\ grouped = FALSE
    /\ gll = GllNotRun

GllIdle ==
    /\ lines = <<>>
    /\ grouped = FALSE
    /\ gll = GllNotRun

\* main: let nested = group_logical_lines(lines)
GroupLines ==
    /\ ~grouped
    /\ lines # <<>>
    /\ grouped' = TRUE
    /\ gll' = group_logical_lines(lines)
    /\ UNCHANGED <<lines, notGllVars>>

\* --------------------------------------------- main.rs: list_logical_lines

MaxData == 4

\* the characters files are written with
DataChars == {"a", " ", "\n", "\\", "(", ")", "#", "\"", "\t", "\r"}

\* munge_filename(path) for the file Filename
Prefix == <<"_", "m", "1", "_", "f", "_", "_">>

LetterChars == {"a", "b", "c", "x", "_", "0", "1"}

\* the characters that open a string literal (the backquote takes the same branch)
QuoteChars == {"\"", "'"}

\* letterlike
letterlike(c) == c \in LetterChars

\* chars[p], p counted from 0
Ch(p) == data[p + 1]

data_len == Len(data)

RECURSIVE RunEnd(_, _)
\* the first position from p on that is past the end or at a character not of kind
RunEnd(p, kind) ==
    IF p < data_len /\ ((kind = "space" /\ Ch(p) = " ") \/ (kind = "letter" /\ letterlike(Ch(p))))
    THEN RunEnd(p + 1, kind)
    ELSE p

\* does text hold two adjacent underscores
HasDunder(text) == \E i \in 1..(Len(text) - 1) : text[i] = "_" /\ text[i + 1] = "_"

\* match_logical_word: (word, magic, end)
match_logical_word(p) ==
    LET c == Ch(p)
        end == IF c = " " THEN RunEnd(p + 1, "space")
               ELSE IF letterlike(c) THEN RunEnd(p + 1, "letter")
               ELSE p + 1
        word == SubSeq(data, p + 1, end)
        magic == (end - p) >= 3 /\ word[1] = "_" /\ word[2] = "_"
    IN <<word, magic, end>>

\* a rewrite that does not look for a second pair of underscores
MungeAnyRest(word, magic) ==
    LET rest == SubSeq(word, 3, Len(word))
    IN IF magic THEN Prefix \o rest ELSE word

\* the identifier rewrite applied to a magic word
Munge(word, magic) ==
    LET rest == SubSeq(word, 3, Len(word))
    IN IF magic /\ ~HasDunder(rest) THEN Prefix \o rest ELSE word

RECURSIVE StringScan(_, _, _, _, _, _)
\* the loop over a string literal's characters, from the character after the
\* opening quotes: [pos, s, number] when the loop ends
StringScan(p, delim, triple_quote, escape, s, num) ==
    IF p >= data_len THEN [pos |-> p, s |-> s, number |-> num]
    ELSE LET c == Ch(p)
             n == IF c = "\n" THEN num + 1 ELSE num
         IN IF c = "\r" THEN StringScan(p + 1, delim, triple_quote, escape, s, n)
            ELSE IF escape THEN StringScan(p + 1, delim, triple_quote, FALSE, Append(s, c), n)
            ELSE IF c = delim /\ ~triple_quote
            THEN [pos |-> p + 1, s |-> Append(s, c), number |-> n]
            ELSE IF c = delim /\ p < data_len - 2 /\ Ch(p + 1) = delim /\ Ch(p + 2) = delim
            THEN [pos |-> p + 3, s |-> s \o <<delim, delim, delim>>, number |-> n]
            ELSE StringScan(p + 1, delim, triple_quote, c = "\\", Append(s, c), n)

RECURSIVE SkipCommentAndNewline(_)
\* a comment skip that also swallows the newline ending the comment
SkipCommentAndNewline(p) == IF Ch(p) # "\n" THEN SkipCommentAndNewline(p + 1) ELSE p + 1

RECURSIVE SkipComment(_)
\* while chars[pos] != '\n' { pos += 1 }
SkipComment(p) == IF Ch(p) # "\n" THEN SkipComment(p + 1) ELSE p

\* final_line.trim().len() > 0
NonBlank(text) == \E i \in 1..Len(text) : text[i] \notin {" ", "\n", "\r", "\t"}

LllInputs == {d \o <<"\n", "\n">> : d \in SeqsUpTo(DataChars, MaxData)}

\* let line_number = 1: the line every error of list_logical_lines is reported at
line_number == 1

LllInit ==
    /\ data \in LllInputs
    /\ pos = 0
    /\ number = 1
    /\ start_number = 1
    /\ line = <<>>
    /\ parendepth = 0
    /\ result = <<>>
    /\ lll = "outer"
    /\ breaks = {}
    /\ bail = Nothing

LllIdle ==
    /\ data = <<>>
    /\ pos = 0
    /\ number = 1
    /\ start_number = 1
    /\ line = <<>>
    /\ parendepth = 0
    /\ result = <<>>
    /\ lll = "ok"
    /\ breaks = {}
    /\ bail = Nothing

\* the words that the identifier rewrite is tried on, and what stands around them
MaxWord == 5
MungeWords == SeqsUpTo({"_", "a"}, MaxWord) \ {<<>>}
MungeBefore ==
    {<<>>, <<"a", " ">>, <<"\"">>, <<"\"", "a", " ">>, <<"#">>, <<"(">>, <<"\\", "\n">>,
     <<"\r">>, <<"\t">>}
MungeAfter == {<<>>, <<"\"">>, <<" ", "a">>, <<")">>}
MungeInputs ==
    {b \o w \o a \o <<"\n", "\n">> : b \in MungeBefore, w \in MungeWords, a \in MungeAfter}

\* list_logical_lines on a line that holds one of the words
MungeInit ==
    /\ data \in MungeInputs
    /\ pos = 0
    /\ number = 1
    /\ start_number = 1
    /\ line = <<>>
    /\ parendepth = 0
    /\ result = <<>>
    /\ lll = "outer"
    /\ breaks = {}
    /\ bail = Nothing

\* the outer while: a new logical line begins
LllStartLine ==
    /\ lll = "outer"
    /\ pos < data_len
    /\ start_number' = number
    /\ line' = <<>>
    /\ parendepth' = 0
    /\ lll' = "inner"
    /\ UNCHANGED <<data, pos, number, result, breaks, bail, notLllVars>>

\* the outer while ends: Ok(result)
LllFinish ==
    /\ lll = "outer"
    /\ pos >= data_len
    /\ lll' = "ok"
    /\ UNCHANGED <<data, pos, number, start_number, line, parendepth, result, breaks, bail, notLllVars>>

\* the inner while ends at the end of the data: an unterminated line is an error
LllEndOfData ==
    /\ lll = "inner"
    /\ pos >= data_len
    /\ lll' = IF Len(line) > 0 THEN "unterminated" ELSE "outer"
    /\ bail' = IF Len(line) > 0
               THEN Some([message |-> "Line is not terminated with a newline.",
                          path |-> Filename, line |-> line_number])
               ELSE bail
    /\ UNCHANGED <<data, pos, number, start_number, line, parendepth, result, breaks, notLllVars>>

\* c == '\t'
LllTab ==
    /\ lll = "inner"
    /\ pos < data_len
    /\ Ch(pos) = "\t"
    /\ lll' = "tab"
    /\ bail' = Some([message |-> "Tab characters are not allowed in Ren'Py scripts",
                     path |-> Filename, line |-> line_number])
    /\ UNCHANGED <<data, pos, number, start_number, line, parendepth, result, breaks, notLllVars>>

\* c == '\n' && parendepth == 0: the logical line ends
LllEndLine ==
    /\ lll = "inner"
    /\ pos < data_len
    /\ Ch(pos) = "\n"
    /\ parendepth = 0
    /\ result' = IF NonBlank(line) THEN Append(result, <<start_number, line>>) ELSE result
    /\ pos' = pos + 1
    /\ number' = number + 1
    /\ line' = <<>>
    /\ lll' = "outer"
    /\ breaks' = breaks \cup {pos}
    /\ UNCHANGED <<data, start_number, parendepth, bail, notLllVars>>

\* c == '\r'
LllCarriageReturn ==
    /\ lll = "inner"
    /\ pos < data_len
    /\ Ch(pos) = "\r"
    /\ pos' = pos + 1
    /\ UNCHANGED <<data, number, start_number, line, parendepth, result, lll, breaks, bail, notLllVars>>

\* a continuation that leaves the line counter as it is
LllContinuationUncounted ==
    /\ lll = "inner"
    /\ pos < data_len
    /\ Ch(pos) = "\\"
    /\ Ch(pos + 1) = "\n"
    /\ pos' = pos + 2
    /\ line' = line \o <<"\\", "\n">>
    /\ UNCHANGED <<data, number, start_number, parendepth, result, lll, breaks, bail, notLllVars>>

\* c == '\\' && chars[pos + 1] == '\n'
LllContinuation ==
    /\ lll = "inner"
    /\ pos < data_len
    /\ Ch(pos) = "\\"
    /\ Ch(pos + 1) = "\n"
    /\ pos' = pos + 2
    /\ number' = number + 1
    /\ line' = line \o <<"\\", "\n">>
    /\ UNCHANGED <<data, start_number, parendepth, result, lll, breaks, bail, notLllVars>>

\* c == '#': the comment is skipped up to its newline
LllComment ==
    /\ lll = "inner"
    /\ pos < data_len
    /\ Ch(pos) = "#"
    /\ pos' = SkipComment(pos)
    /\ UNCHANGED <<data, number, start_number, line, parendepth, result, lll, breaks, bail, notLllVars>>

\* a quote character: the string literal is copied whole
LllString ==
    /\ lll = "inner"
    /\ pos < data_len
    /\ Ch(pos) \in QuoteChars
    /\ LET delim == Ch(pos)
           triple_quote == (pos + 1 < data_len - 1) /\ Ch(pos + 1) = delim /\ Ch(pos + 2) = delim
           open == IF triple_quote THEN <<delim, delim, delim>> ELSE <<delim>>
           r == StringScan(pos + Len(open), delim, triple_quote, FALSE, <<>>, number)
       IN /\ pos' = r.pos
          /\ number' = r.number
          /\ line' = line \o open \o r.s
    /\ UNCHANGED <<data, start_number, parendepth, result, lll, breaks, bail, notLllVars>>

\* every other character, a newline inside parentheses included: the newline and
\* parenthesis counters, then match_logical_word and the identifier rewrite
LllWord ==
    /\ lll = "inner"
    /\ pos < data_len
    /\ LET c == Ch(pos)
       IN /\ c \notin {"\t", "\r", "#"} \cup QuoteChars
          /\ ~(c = "\n" /\ parendepth = 0)
          /\ ~(c = "\\" /\ Ch(pos + 1) = "\n")
          /\ number' = IF c = "\n" THEN number + 1 ELSE number
          /\ parendepth' = IF c \in {"(", "[", "{"} THEN parendepth + 1
                           ELSE IF c \in {")", "]", "}"} /\ parendepth > 0 THEN parendepth - 1
                           ELSE parendepth
          /\ LET w == match_logical_word(pos)
             IN /\ line' = line \o Munge(w[1], w[2])
                /\ pos' = w[3]
    /\ UNCHANGED <<data, start_number, result, lll, breaks, bail, notLllVars>>

LllNext ==
    \/ LllStartLine
    \/ LllFinish
    \/ LllEndOfData
    \/ LllTab
    \/ LllEndLine
    \/ LllCarriageReturn
    \/ LllContinuation
    \/ LllComment
    \/ LllString
    \/ LllWord

\* ----------------------------------------------------------- lexer.rs: Lexer
\*
\* A text is a sequence of lexemes and a position counts lexemes.  Every value
\* the lexer returns is a text.  Option<T> is <<>> for None and <<v>> for Some(v).

\* Lexer::new: keywords
Keywords == {"$", "as", "at", "behind", "call", "expression", "hide", "if", "in", "image",
             "init", "jump", "menu", "onlayer", "python", "return", "scene", "show", "with",
             "while", "zorder", "transform"}

WhitespaceAtoms == {" ", "\n"}
QuoteAtoms == {"\"", "'"}
IntegerAtoms == {"0", "1", "2", "5", "100", "200"}
NumberAtoms == IntegerAtoms \cup {"1.0", "0.5"}
\* RE_OPERATOR, as far as the lexemes used here go
OperatorAtoms == {"+", "-", "*", "==", "<", ">", "and", "or", "not", "in", "is"}
\* every lexeme that does not begin with a letter or an underscore
Symbols == WhitespaceAtoms \cup QuoteAtoms \cup NumberAtoms
           \cup {"+", "-", "*", "==", "<", ">", ":", ",", ".", "(", ")", "[", "]", "\\",
                 "$", "=", "@", "#", "{clear}", "{", "}", "/", "|"}

IsWordStart(a) == a \notin Symbols
IsWordPart(a) == IsWordStart(a) \/ a \in IntegerAtoms
IsImagePart(a) == IsWordPart(a) \/ a = "-"

RECURSIVE WordPartRun(_, _)
\* the count of lexemes from p on that continue a word: [0-9a-zA-Z_]*
WordPartRun(text, p) ==
    IF p < Len(text) /\ IsWordPart(text[p + 1]) THEN 1 + WordPartRun(text, p + 1) ELSE 0

RECURSIVE ImagePartRun(_, _)
\* RE_IMAGE_NAME: [-0-9a-zA-Z_]+
ImagePartRun(text, p) ==
    IF p < Len(text) /\ IsImagePart(text[p + 1]) THEN 1 + ImagePartRun(text, p + 1) ELSE 0

RECURSIVE WhitespaceRun(_, _)
\* RE_WHITESPACE: (\s+|\\\n)+
WhitespaceRun(text, p) ==
    IF p < Len(text) /\ text[p + 1] \in WhitespaceAtoms
    THEN 1 + WhitespaceRun(text, p + 1)
    ELSE IF p + 1 < Len(text) /\ text[p + 1] = "\\" /\ text[p + 2] = "\n"
    THEN 2 + WhitespaceRun(text, p + 2)
    ELSE 0

RECURSIVE QuoteRun(_, _, _)
\* the count of consecutive q from p on
QuoteRun(text, p, q) ==
    IF p < Len(text) /\ text[p + 1] = q THEN 1 + QuoteRun(text, p + 1, q) ELSE 0

RECURSIVE StringBodyEnd(_, _, _)
\* ([^\\q]|\\.)*q from i on: the position after the closing quote, or -1
StringBodyEnd(text, i, q) ==
    IF i >= Len(text) THEN -1
    ELSE IF text[i + 1] = q THEN i + 1
    ELSE IF text[i + 1] = "\\"
    THEN (IF i + 1 < Len(text) THEN StringBodyEnd(text, i + 2, q) ELSE -1)
    ELSE StringBodyEnd(text, i + 1, q)

RECURSIVE TripleBodyEnd(_, _, _)
\* ([^\\q]|\\.|q{1,2}[^q])*qqq from i on: the position after the closing quotes, or -1
TripleBodyEnd(text, i, q) ==
    IF i >= Len(text) THEN -1
    ELSE IF text[i + 1] = "\\"
    THEN (IF i + 1 < Len(text) THEN TripleBodyEnd(text, i + 2, q) ELSE -1)
    ELSE IF text[i + 1] = q
    THEN Bind(QuoteRun(text, i, q), LAMBDA k :
            IF k >= 3 THEN i + 3
            ELSE IF i + k < Len(text) THEN TripleBodyEnd(text, i + k + 1, q) ELSE -1)
    ELSE TripleBodyEnd(text, i + 1, q)

\* the length of the match of q([^\\q]|\\.)*q at p, 0 for no match
StringMatch(text, p, q) ==
    IF p < Len(text) /\ text[p + 1] = q
    THEN Bind(StringBodyEnd(text, p + 1, q), LAMBDA e : IF e = -1 THEN 0 ELSE e - p)
    ELSE 0

\* the length of the match of qqq(...)*qqq at p, 0 for no match
TripleMatch(text, p, q) ==
    IF QuoteRun(text, p, q) >= 3
    THEN Bind(TripleBodyEnd(text, p + 3, q), LAMBDA e : IF e = -1 THEN 0 ELSE e - p)
    ELSE 0

\* pattern.find(substr): the count of lexemes the pattern matches at p, 0 for no match.
\* A pattern is the name of one of the lexer's regular expressions or a literal lexeme.
MatchLen(text, p, re) ==
    CASE re = "RE_WORD" -> IF IsWordStart(text[p + 1]) THEN 1 + WordPartRun(text, p + 1) ELSE 0
      [] re = "RE_WHITESPACE" -> WhitespaceRun(text, p)
      [] re = "RE_OPERATOR" -> IF text[p + 1] \in OperatorAtoms THEN 1 ELSE 0
      [] re = "RE_STRING_DOUBLE" -> StringMatch(text, p, "\"")
      [] re = "RE_STRING_SINGLE" -> StringMatch(text, p, "'")
      [] re = "RE_STRING_TRIPLE_DOUBLE" -> TripleMatch(text, p, "\"")
      [] re = "RE_STRING_TRIPLE_SINGLE" -> TripleMatch(text, p, "'")
      [] re = "RE_IMAGE_NAME" -> ImagePartRun(text, p)
      [] re = "RE_FLOAT" ->
            IF text[p + 1] \in NumberAtoms THEN 1
            ELSE IF text[p + 1] \in {"+", "-"} /\ p + 1 < Len(text) /\ text[p + 2] \in NumberAtoms
            THEN 2 ELSE 0
      [] re = "RE_INTEGER" ->
            IF text[p + 1] \in IntegerAtoms THEN 1
            ELSE IF text[p + 1] \in {"+", "-"} /\ p + 1 < Len(text) /\ text[p + 2] \in IntegerAtoms
            THEN 2 ELSE 0
      [] re = "RE_PYTHON_STRING" ->
            IF text[p + 1] \in QuoteAtoms
            THEN (IF QuoteRun(text, p, text[p + 1]) >= 3 THEN 3 ELSE 1)
            ELSE 0
      [] OTHER -> IF text[p + 1] = re THEN 1 ELSE 0

RECURSIVE TrimStart(_)
TrimStart(t) == IF Len(t) > 0 /\ t[1] \in WhitespaceAtoms THEN TrimStart(Tail(t)) ELSE t

RECURSIVE TrimEnd(_)
TrimEnd(t) ==
    IF Len(t) > 0 /\ t[Len(t)] \in WhitespaceAtoms THEN TrimEnd(SubSeq(t, 1, Len(t) - 1)) ELSE t

\* str::trim
Trim(t) == TrimEnd(TrimStart(t))

\* &self.text[a..b]
Slice(text, a, b) == SubSeq(text, a + 1, b)

\* a panic unwinds: the first one is kept and the lexer does nothing more
Panic(lex, msg) == IF lex.panic = "" THEN [lex EXCEPT !.panic = msg] ELSE lex

\* Lexer::new
NewLexer(block) ==
    [block |-> block, init |-> FALSE, global_label |-> Nothing, eob |-> FALSE,
     line |-> Nothing, filename |-> "", number |-> 0, text |-> <<>>, subblock |-> <<>>,
     pos |-> 0, word_cache_pos |-> Nothing, word_cache_newpos |-> Nothing,
     word_cache |-> <<>>, panic |-> ""]

\* Lexer::advance
advance(lex) ==
    IF lex.panic # "" THEN lex
    ELSE LET l == IF lex.line = Nothing THEN 0 ELSE lex.line[1] + 1
         IN IF l >= Len(lex.block)
            THEN [lex EXCEPT !.line = Some(l), !.eob = TRUE]
            ELSE [lex EXCEPT !.line = Some(l),
                             !.filename = lex.block[l + 1].filename,
                             !.number = lex.block[l + 1].number,
                             !.text = lex.block[l + 1].text,
                             !.subblock = lex.block[l + 1].block,
                             !.pos = 0,
                             !.word_cache_pos = Nothing]

\* Lexer::unadvance; self.line.unwrap(), the subtraction and the index can each panic
unadvance(lex) ==
    IF lex.panic # "" THEN lex
    ELSE IF lex.line = Nothing \/ lex.line = Some(0) \/ lex.line[1] - 1 >= Len(lex.block)
    THEN Panic(lex, "unadvance")
    ELSE LET l == lex.line[1] - 1
         IN [lex EXCEPT !.line = Some(l), !.eob = FALSE,
                        !.filename = lex.block[l + 1].filename,
                        !.number = lex.block[l + 1].number,
                        !.text = lex.block[l + 1].text,
                        !.subblock = lex.block[l + 1].block,
                        !.pos = Len(lex.block[l + 1].text),
                        !.word_cache_pos = Nothing]

\* Lexer::match_regexp; slicing the text beyond its end panics
match_regexp(lex, re) ==
    IF lex.panic # "" \/ lex.eob \/ lex.pos = Len(lex.text) THEN [lex |-> lex, rv |-> Nothing]
    ELSE IF lex.pos > Len(lex.text) THEN [lex |-> Panic(lex, "slice"), rv |-> Nothing]
    ELSE Bind(MatchLen(lex.text, lex.pos, re), LAMBDA m :
            IF m = 0 THEN [lex |-> lex, rv |-> Nothing]
            ELSE [lex |-> [lex EXCEPT !.pos = @ + m],
                  rv |-> Some(Slice(lex.text, lex.pos, lex.pos + m))])

\* Lexer::skip_whitespace
skip_whitespace(lex) == match_regexp(lex, "RE_WHITESPACE").lex

\* Lexer::rmatch
rmatch(lex, re) == match_regexp(skip_whitespace(lex), re)

\* Lexer::word
word(lex) ==
    IF lex.panic # "" THEN [lex |-> lex, rv |-> Nothing]
    ELSE IF Some(lex.pos) = lex.word_cache_pos
    THEN [lex |-> [lex EXCEPT !.pos = lex.word_cache_newpos[1]],
          rv |-> IF Len(lex.word_cache) = 0 THEN Nothing ELSE Some(lex.word_cache)]
    ELSE Bind(rmatch([lex EXCEPT !.word_cache_pos = Some(lex.pos)], "RE_WORD"), LAMBDA r :
            [lex |-> [r.lex EXCEPT !.word_cache = IF IsSome(r.rv) THEN Unwrap(r.rv) ELSE <<>>,
                                   !.word_cache_newpos = Some(r.lex.pos)],
             rv |-> r.rv])

\* Lexer::keyword
keyword(lex, w) ==
    Bind(word(lex), LAMBDA r :
        IF r.rv = Some(w) THEN [lex |-> r.lex, rv |-> Some(w)]
        ELSE [lex |-> [r.lex EXCEPT !.pos = lex.pos], rv |-> Nothing])

\* Lexer::eol
eol(lex) == Bind(skip_whitespace(lex), LAMBDA l : [lex |-> l, rv |-> l.pos >= Len(l.text)])

\* Lexer::has_block
has_block(lex) == Len(lex.subblock) > 0

\* Lexer::subblock_lexer
subblock_lexer(lex, init) ==
    [NewLexer(lex.subblock) EXCEPT !.init = lex.init \/ init,
                                   !.global_label = lex.global_label,
                                   !.panic = lex.panic]

\* Lexer::get_location
get_location(lex) == <<lex.filename, lex.number>>

\* Lexer::expect_eol
expect_eol(lex) ==
    Bind(eol(lex), LAMBDA r : IF r.rv THEN r.lex ELSE Panic(r.lex, "end of line expected"))

\* Lexer::expect_block
expect_block(lex) ==
    IF Len(lex.subblock) = 0 THEN Panic(lex, "expected a non-empty block") ELSE lex

\* Lexer::expect_noblock
expect_noblock(lex) ==
    IF Len(lex.subblock) > 0 THEN Panic(lex, "line is indented") ELSE lex

\* Lexer::checkpoint
checkpoint(lex) ==
    [line |-> lex.line, filename |-> lex.filename, number |-> lex.number,
     text |-> lex.text, subblock |-> lex.subblock, pos |-> lex.pos]

\* Lexer::revert, leaving the end-of-block flag as it stands
revert_keeping_eob(lex, state) ==
    IF lex.panic # "" THEN lex
    ELSE [lex EXCEPT !.line = state.line, !.filename = state.filename,
                     !.number = state.number, !.text = state.text,
                     !.subblock = state.subblock, !.pos = state.pos,
                     !.word_cache_pos = Nothing]

\* Lexer::revert; None < Some(n) holds for every n
revert(lex, state) ==
    IF lex.panic # "" THEN lex
    ELSE [lex EXCEPT !.line = state.line, !.filename = state.filename,
                     !.number = state.number, !.text = state.text,
                     !.subblock = state.subblock, !.pos = state.pos,
                     !.word_cache_pos = Nothing,
                     !.eob = ~(state.line = Nothing \/ state.line[1] < Len(lex.block))]

\* self.rmatch(s.into()) for a literal s of several lexemes
rmatch_literal(lex, t) ==
    Bind(skip_whitespace(lex), LAMBDA l :
        IF l.panic # "" \/ l.eob \/ l.pos = Len(l.text) THEN [lex |-> l, rv |-> Nothing]
        ELSE IF l.pos > Len(l.text) THEN [lex |-> Panic(l, "slice"), rv |-> Nothing]
        ELSE IF l.pos + Len(t) <= Len(l.text) /\ Slice(l.text, l.pos, l.pos + Len(t)) = t
        THEN [lex |-> [l EXCEPT !.pos = @ + Len(t)], rv |-> Some(t)]
        ELSE [lex |-> l, rv |-> Nothing])

\* Lexer::name
name(lex) ==
    Bind(word(lex), LAMBDA r :
        IF r.rv = Nothing THEN r
        ELSE IF Unwrap(r.rv) \in {<<"r">>, <<"u">>, <<"ur">>} /\ r.lex.pos >= Len(r.lex.text)
        THEN [lex |-> Panic(r.lex, "slice"), rv |-> Nothing]
        ELSE IF Unwrap(r.rv) \in {<<"r">>, <<"u">>, <<"ur">>}
                /\ r.lex.text[r.lex.pos + 1] \in QuoteAtoms
        THEN [lex |-> [r.lex EXCEPT !.pos = lex.pos], rv |-> Nothing]
        ELSE IF Len(Unwrap(r.rv)) = 1 /\ Unwrap(r.rv)[1] \in Keywords
        THEN [lex |-> [r.lex EXCEPT !.pos = lex.pos], rv |-> Nothing]
        ELSE r)

\* the second half of Lexer::label_name: the local name after the dot
label_local(lex, old_pos, global) ==
    Bind(name(lex), LAMBDA n :
        IF n.rv = Nothing THEN [lex |-> [n.lex EXCEPT !.pos = old_pos], rv |-> Nothing]
        ELSE [lex |-> n.lex, rv |-> Some(global \o <<".">> \o Unwrap(n.rv))])

\* Lexer::label_name
label_name(lex, declare) ==
    Bind(name(lex), LAMBDA g :
    Bind(rmatch(g.lex, "."), LAMBDA d :
        IF IsSome(g.rv)
        THEN IF IsSome(d.rv)
             THEN IF declare /\ g.rv # d.lex.global_label
                  THEN [lex |-> [d.lex EXCEPT !.pos = lex.pos], rv |-> Nothing]
                  ELSE label_local(d.lex, lex.pos, Unwrap(g.rv))
             ELSE [lex |-> d.lex, rv |-> g.rv]
        ELSE IF d.rv = Nothing \/ d.lex.global_label = Nothing
             THEN [lex |-> [d.lex EXCEPT !.pos = lex.pos], rv |-> Nothing]
             ELSE label_local(d.lex, lex.pos, Unwrap(d.lex.global_label))))

\* Lexer::label_name_declare
label_name_declare(lex) == label_name(lex, TRUE)

\* Lexer::image_name_component
image_name_component(lex) ==
    Bind(rmatch(lex, "RE_IMAGE_NAME"), LAMBDA r :
        IF r.rv \in {Some(<<"r">>), Some(<<"u">>)} /\ r.lex.pos >= Len(r.lex.text)
        THEN [lex |-> Panic(r.lex, "unwrap"), rv |-> Nothing]
        ELSE IF r.rv \in {Some(<<"r">>), Some(<<"u">>)}
                /\ r.lex.text[r.lex.pos + 1] \in QuoteAtoms
        THEN [lex |-> [r.lex EXCEPT !.pos = lex.pos], rv |-> Nothing]
        ELSE IF IsSome(r.rv) /\ Len(Unwrap(r.rv)) = 1 /\ Unwrap(r.rv)[1] \in Keywords
        THEN [lex |-> [r.lex EXCEPT !.pos = lex.pos], rv |-> Nothing]
        ELSE r)

\* self.rmatch(first) and, when that fails, self.rmatch(second)
rmatch_either(lex, first, second) ==
    Bind(rmatch(lex, first), LAMBDA d : IF IsSome(d.rv) THEN d ELSE rmatch(d.lex, second))

\* Lexer::string: the text between the quotes; the escapes are worked out on a copy
\* that is dropped
string(lex) ==
    Bind(rmatch_either(lex, "RE_STRING_DOUBLE", "RE_STRING_SINGLE"), LAMBDA s :
        IF IsSome(s.rv)
        THEN [lex |-> s.lex, rv |-> Some(SubSeq(Unwrap(s.rv), 2, Len(Unwrap(s.rv)) - 1))]
        ELSE s)

\* Lexer::triple_string: result.push(s) stands after the loop over the paragraphs,
\* where s is the whole text between the quotes
triple_string(lex) ==
    Bind(rmatch_either(lex, "RE_STRING_TRIPLE_DOUBLE", "RE_STRING_TRIPLE_SINGLE"), LAMBDA s :
        IF IsSome(s.rv)
        THEN [lex |-> s.lex, rv |-> Some(<<SubSeq(Unwrap(s.rv), 4, Len(Unwrap(s.rv)) - 3)>>)]
        ELSE s)

RECURSIVE InternalRun(_, _)
\* [^'"\\]*
InternalRun(text, p) ==
    IF p < Len(text) /\ text[p + 1] \notin (QuoteAtoms \cup {"\\"})
    THEN 1 + InternalRun(text, p + 1) ELSE 0

RECURSIVE python_string_loop(_, _)
\* the loop of Lexer::python_string
python_string_loop(lex, delim) ==
    IF lex.panic # "" THEN lex
    ELSE Bind(eol(lex), LAMBDA e :
            IF e.rv THEN Panic(e.lex, "end of line reached while parsing string") ELSE
         Bind(rmatch_literal(e.lex, delim), LAMBDA d :
            IF IsSome(d.rv) THEN d.lex ELSE
         Bind(rmatch_literal(d.lex, <<"\\", "\\">>), LAMBDA b :
            IF IsSome(b.rv) THEN [b.lex EXCEPT !.pos = @ + 1] ELSE
         Bind(skip_whitespace(b.lex), LAMBDA i :
            IF i.pos >= Len(i.text) THEN Panic(i, "unwrap")
            ELSE python_string_loop(
                    [i EXCEPT !.pos = @ + 1 + InternalRun(i.text, i.pos + 1)], delim)))))

\* Lexer::python_string
python_string(lex) ==
    Bind(eol(lex), LAMBDA e :
        IF e.rv THEN [lex |-> e.lex, rv |-> FALSE] ELSE
    Bind(rmatch(e.lex, "RE_PYTHON_STRING"), LAMBDA s :
        IF s.rv = Nothing THEN [lex |-> [s.lex EXCEPT !.pos = e.lex.pos], rv |-> FALSE]
        ELSE [lex |-> python_string_loop(s.lex, Unwrap(s.rv)), rv |-> TRUE]))

Closer(c) == IF c = "(" THEN ")" ELSE IF c = "[" THEN "]" ELSE "}"

RECURSIVE delimited_python_loop(_, _, _)
RECURSIVE parenthesised_python(_)

\* the loop of Lexer::delimited_python; delim is the set of closing characters
delimited_python_loop(lex, delim, start) ==
    IF lex.panic # "" THEN [lex |-> lex, rv |-> Nothing]
    ELSE Bind(eol(lex), LAMBDA e :
            IF e.rv
            THEN [lex |-> Panic(e.lex, "reached end of line when expecting delimiter"),
                  rv |-> Nothing]
            ELSE IF e.lex.text[e.lex.pos + 1] \in delim
            THEN [lex |-> e.lex, rv |-> Some(Slice(e.lex.text, start, e.lex.pos))]
            ELSE IF e.lex.text[e.lex.pos + 1] \in QuoteAtoms
            THEN delimited_python_loop(python_string(e.lex).lex, delim, start)
            ELSE Bind(parenthesised_python(e.lex), LAMBDA p :
                    IF p.rv THEN delimited_python_loop(p.lex, delim, start)
                    ELSE delimited_python_loop([e.lex EXCEPT !.pos = @ + 1], delim, start)))

\* Lexer::delimited_python
delimited_python(lex, delim) == delimited_python_loop(lex, delim, lex.pos)

\* Lexer::parenthesised_python
parenthesised_python(lex) ==
    IF lex.panic # "" \/ lex.pos >= Len(lex.text) THEN [lex |-> lex, rv |-> FALSE]
    ELSE IF lex.text[lex.pos + 1] \in {"(", "[", "{"}
    THEN Bind(delimited_python([lex EXCEPT !.pos = @ + 1], {Closer(lex.text[lex.pos + 1])}),
              LAMBDA d :
                [lex |-> IF d.lex.panic # "" THEN d.lex ELSE [d.lex EXCEPT !.pos = @ + 1],
                 rv |-> TRUE])
    ELSE [lex |-> lex, rv |-> FALSE]

\* Lexer::float
float(lex) == rmatch(lex, "RE_FLOAT")

\* Lexer::integer
integer(lex) == rmatch(lex, "RE_INTEGER")

RECURSIVE SkipOperators(_)
\* while self.rmatch(Operator).is_some()
SkipOperators(lex) ==
    Bind(rmatch(lex, "RE_OPERATOR"), LAMBDA r :
        IF IsSome(r.rv) THEN SkipOperators(r.lex) ELSE r.lex)

RECURSIVE se_trailers(_)
\* the inner loop of simple_expression: attribute accesses and calls
se_trailers(lex) ==
    IF lex.panic # "" THEN lex
    ELSE Bind(eol(skip_whitespace(lex)), LAMBDA e :
            IF e.rv THEN e.lex ELSE
         Bind(rmatch(e.lex, "."), LAMBDA d :
            IF IsSome(d.rv)
            THEN Bind(word(d.lex), LAMBDA n :
                    IF n.rv = Nothing THEN Panic(n.lex, "expecting name after dot")
                    ELSE se_trailers(n.lex))
            ELSE Bind(parenthesised_python(d.lex), LAMBDA p :
                    IF p.rv THEN se_trailers(p.lex) ELSE p.lex)))

\* self.python_string() || self.name() || self.float() || self.parenthesised_python()
se_atom(lex) ==
    Bind(python_string(lex), LAMBDA ps :
        IF ps.rv THEN ps ELSE
    Bind(name(ps.lex), LAMBDA nm :
        IF IsSome(nm.rv) THEN [lex |-> nm.lex, rv |-> TRUE] ELSE
    Bind(float(nm.lex), LAMBDA fl :
        IF IsSome(fl.rv) THEN [lex |-> fl.lex, rv |-> TRUE]
        ELSE parenthesised_python(fl.lex))))

\* self.rmatch(re) when the flag asks for it
rmatch_if(lex, flag, re) == IF flag THEN rmatch(lex, re) ELSE [lex |-> lex, rv |-> Nothing]

RECURSIVE se_loop(_, _, _)
\* the outer loop of simple_expression
se_loop(lex, comma, operator) ==
    IF lex.panic # "" THEN lex
    ELSE Bind(eol(SkipOperators(lex)), LAMBDA e :
            IF e.rv THEN e.lex ELSE
         Bind(se_atom(e.lex), LAMBDA a :
            IF ~a.rv THEN a.lex ELSE
         Bind(rmatch_if(se_trailers(a.lex), operator, "RE_OPERATOR"), LAMBDA o :
            IF IsSome(o.rv) THEN se_loop(o.lex, comma, operator) ELSE
         Bind(rmatch_if(o.lex, comma, ","), LAMBDA c :
            IF IsSome(c.rv) THEN se_loop(c.lex, comma, operator) ELSE c.lex))))

\* text[start..pos], trimmed, or None when nothing is left or the lexer has panicked
se_result(lex, start) ==
    Bind(Trim(Slice(lex.text, start, lex.pos)), LAMBDA t :
        [lex |-> lex, rv |-> IF lex.panic # "" \/ Len(t) = 0 THEN Nothing ELSE Some(t)])

\* Lexer::simple_expression
simple_expression(lex, comma, operator) == se_result(se_loop(lex, comma, operator), lex.pos)

\* Lexer::say_expression
say_expression(lex) == simple_expression(lex, FALSE, FALSE)

\* the rest of the text from the cursor on, the cursor moved to the end
rest_from(lex, rv) ==
    [lex |-> [lex EXCEPT !.pos = Len(lex.text)],
     rv |-> IF Len(rv) = 0 THEN Nothing ELSE Some(rv)]

\* Lexer::rest
rest(lex) ==
    Bind(skip_whitespace(lex), LAMBDA l : rest_from(l, Trim(Slice(l.text, l.pos, Len(l.text)))))

\* Lexer::rest_statement
rest_statement(lex) == rest_from(lex, Slice(lex.text, lex.pos, Len(lex.text)))

\* Lexer::python_expression
python_expression(lex) ==
    Bind(delimited_python(lex, {":"}), LAMBDA d :
        IF IsSome(d.rv) THEN [lex |-> d.lex, rv |-> Some(Trim(Unwrap(d.rv)))]
        ELSE [lex |-> Panic(d.lex, "expected python_expression"), rv |-> Nothing])

\* ------------------------------------------------ the cursor under its primitives

\* how far past the end of its block the cursor is taken
MaxPastEnd == 1

Blk(n, text, sub) == [filename |-> Filename, number |-> n, text |-> text, block |-> sub]

LexSay == <<"e", " ", "\"", "hi", "\"">>
LexExpr == <<"x", ".", "y", " ", "with", " ", "(", "1", ")">>
LexProp == <<"xpos", " ", "1">>

\* the blocks the cursor is made over: one line with a sub-block, or two lines
LexBlocks ==
    {<<Blk(1, LexExpr, <<Blk(2, LexProp, <<>>)>>)>>,
     <<Blk(1, LexSay, <<>>), Blk(2, LexExpr, <<>>)>>}

\* what a caller can see of the cursor
Observable(l) ==
    [line |-> l.line, filename |-> l.filename, number |-> l.number, text |-> l.text,
     subblock |-> l.subblock, pos |-> l.pos, eob |-> l.eob]

LexInit ==
    /\ cursor \in {NewLexer(b) : b \in LexBlocks}
    /\ saved = Nothing
    /\ snapshot = Nothing
    /\ sinceCp = {}
    /\ lexop = "new"

LexIdle ==
    /\ cursor = NewLexer(<<>>)
    /\ saved = Nothing
    /\ snapshot = Nothing
    /\ sinceCp = {}
    /\ lexop = "new"

\* a primitive has taken the cursor from cursor to l
LexStep(l, op, tags) ==
    /\ cursor.panic = ""
    /\ cursor' = l
    /\ lexop' = op
    /\ sinceCp' = IF saved = Nothing THEN {} ELSE sinceCp \cup tags
    /\ UNCHANGED <<saved, snapshot>>

LexAdvance ==
    /\ IF cursor.line = Nothing THEN TRUE ELSE cursor.line[1] < Len(cursor.block) + MaxPastEnd
    /\ LexStep(advance(cursor), "advance",
               IF advance(cursor).eob THEN {"advance", "eob"} ELSE {"advance"})
    /\ UNCHANGED notLexVars

LexUnadvance ==
    /\ LexStep(unadvance(cursor), "unadvance", {"advance"})
    /\ UNCHANGED notLexVars

LexWord ==
    /\ LexStep(word(cursor).lex, "token", {"token"})
    /\ UNCHANGED notLexVars

LexKeyword(w) ==
    /\ LexStep(keyword(cursor, w).lex, "token", {"token"})
    /\ UNCHANGED notLexVars

LexName ==
    /\ LexStep(name(cursor).lex, "token", {"token"})
    /\ UNCHANGED notLexVars

LexString ==
    /\ LexStep(string(cursor).lex, "token", {"token"})
    /\ UNCHANGED notLexVars

LexSimpleExpression(comma, operator) ==
    /\ LexStep(simple_expression(cursor, comma, operator).lex, "token", {"token"})
    /\ UNCHANGED notLexVars

LexRmatch(re) ==
    /\ LexStep(rmatch(cursor, re).lex, "token", {"token"})
    /\ UNCHANGED notLexVars

\* c = cursor.checkpoint()
LexCheckpoint ==
    /\ cursor.panic = ""
    /\ saved = Nothing
    /\ saved' = Some(checkpoint(cursor))
    /\ snapshot' = Some(Observable(cursor))
    /\ sinceCp' = {}
    /\ lexop' = "checkpoint"
    /\ UNCHANGED cursor
    /\ UNCHANGED notLexVars

\* cursor.revert(c)
LexRevert ==
    /\ cursor.panic = ""
    /\ IsSome(saved)
    /\ lexop # "revert"
    /\ cursor' = revert(cursor, Unwrap(saved))
    /\ lexop' = "revert"
    /\ UNCHANGED <<saved, snapshot, sinceCp>>
    /\ UNCHANGED notLexVars

LexNext ==
    \/ LexAdvance
    \/ LexUnadvance
    \/ LexWord
    \/ \E w \in {<<"with">>} : LexKeyword(w)
    \/ LexName
    \/ LexString
    \/ \E operator \in BOOLEAN : LexSimpleExpression(FALSE, operator)
    \/ \E re \in {".", "RE_IMAGE_NAME"} : LexRmatch(re)
    \/ LexCheckpoint
    \/ LexRevert

\* ------------------------------------------------ lexer.rs: python_block

\* the indentation a nested block adds
PyIndent == <<" ", " ", " ", " ">>

RECURSIVE pad(_, _, _)
\* process: while *line < ln
pad(acc, ln, indent) ==
    IF acc.line < ln
    THEN pad([rv |-> Append(acc.rv, indent \o <<"\n">>), line |-> acc.line + 1], ln, indent)
    ELSE acc

\* process, with every line counted as one physical line
process_line_counted_once(acc, b, indent) ==
    Bind(pad(acc, b.number, indent), LAMBDA padded :
        [rv |-> Append(padded.rv, indent \o b.text \o <<"\n">>), line |-> padded.line + 1])

\* process: the body of the loop, up to the call for the sub-block
process_line(acc, b, indent) ==
    Bind(pad(acc, b.number, indent), LAMBDA padded :
    Bind(indent \o b.text \o <<"\n">>, LAMBDA linetext :
        [rv |-> Append(padded.rv, linetext), line |-> padded.line + Newlines(linetext)]))

RECURSIVE process(_, _, _)
process(acc, blocks, indent) ==
    IF Len(blocks) = 0 THEN acc
    ELSE process(process(process_line(acc, blocks[1], indent), blocks[1].block,
                         indent \o PyIndent),
                 Tail(blocks), indent)

RECURSIVE concat(_)
\* rv.join("")
concat(ss) == IF Len(ss) = 0 THEN <<>> ELSE ss[1] \o concat(Tail(ss))

python_block(lex) ==
    Bind(process([rv |-> <<>>, line |-> lex.number], lex.subblock, <<>>), LAMBDA done_ :
        IF Len(done_.rv) = 0 THEN Nothing ELSE Some(concat(done_.rv)))

\* ------------------------------------------- a statement under python_block

\* how many physical lines without a logical line lie before a line of the block
MaxPyGap == 1

\* a line of the block: its text, the blank and comment lines before it, the block under it
PyShape(text, gap, sub) == [text |-> text, gap |-> gap, sub |-> sub]

\* the texts of the lines: on one physical line, or on two
PyTexts == {<<"a">>, <<"(", "\n", ")">>}

PyLeaves == {<<>>} \cup {<<PyShape(t, g, <<>>)>> : t \in PyTexts, g \in 0..MaxPyGap}
PyChildren == {<<>>} \cup {<<PyShape(t, g, u)>> : t \in PyTexts, g \in 0..MaxPyGap, u \in PyLeaves}
PyEntries == {PyShape(t, g, u) : t \in PyTexts, g \in 0..MaxPyGap, u \in PyChildren}
PyBlocks == {<<e>> : e \in PyEntries} \cup {<<e, f>> : e \in PyEntries, f \in PyEntries}

RECURSIVE Laid(_, _)
\* the blocks of shapes as list_logical_lines numbers them, the first physical line
\* free being n: a line has the number of its first physical line
Laid(shapes, n) ==
    IF Len(shapes) = 0 THEN [blocks |-> <<>>, next |-> n]
    ELSE Bind(shapes[1], LAMBDA sh :
         Bind(Laid(sh.sub, n + sh.gap + Newlines(sh.text) + 1), LAMBDA under :
         Bind(Laid(Tail(shapes), under.next), LAMBDA after :
            [blocks |-> <<Blk(n + sh.gap, sh.text, under.blocks)>> \o after.blocks,
             next |-> after.next])))

\* the line numbers the statement is given
PyNumbers == {1, 3}

PyInit ==
    /\ pyStatement \in {Blk(n, <<"python", ":">>, Laid(b, n + 1).blocks) :
                           n \in PyNumbers, b \in PyBlocks}
    /\ pyText = Nothing

PyIdle ==
    /\ pyStatement = Blk(0, <<>>, <<>>)
    /\ pyText = Nothing

\* lex.python_block(), the cursor on the statement
PythonBlock ==
    /\ pyText = Nothing
    /\ pyStatement.text # <<>>
    /\ pyText' = Some(python_block(advance(NewLexer(<<pyStatement>>))))
    /\ UNCHANGED <<pyStatement, notPyVars>>

\* ------------------------------------------------- parser.rs: the say statement
\*
\* A grammar takes the cursor and gives [lex, rv]: the cursor as it leaves it and
\* the value returned.  A panic is kept in the cursor; what a panicked grammar
\* returns is never looked at.

\* a path of the grammar that is not written out here
Unmodelled(lex, what) == Panic(lex, "unmodelled: " \o what)

\* parse_arguments: only the case of no opening parenthesis is written out
parse_arguments(lex) ==
    Bind(rmatch(lex, "("), LAMBDA p :
        IF p.rv = Nothing THEN [lex |-> p.lex, rv |-> Nothing]
        ELSE [lex |-> Unmodelled(p.lex, "parse_arguments"), rv |-> Nothing])

RECURSIVE finish_say_loop(_)
\* the loop of finish_say over the clauses after the text; s holds the cursor and
\* the locals with, arguments, identifier and interact
finish_say_loop(s) ==
    IF s.lex.panic # "" THEN s ELSE
    Bind(keyword(s.lex, <<"nointeract">>), LAMBDA k1 :
        IF IsSome(k1.rv) THEN finish_say_loop([s EXCEPT !.lex = k1.lex, !.interact = FALSE]) ELSE
    Bind(keyword(k1.lex, <<"with">>), LAMBDA k2 :
        IF IsSome(k2.rv)
        THEN IF IsSome(s.with)
             THEN [s EXCEPT !.lex = Panic(k2.lex, "say can only take a single with clause")]
             ELSE Bind(simple_expression(k2.lex, FALSE, TRUE), LAMBDA e :
                    finish_say_loop([s EXCEPT !.lex = e.lex, !.with = e.rv]))
        ELSE
    Bind(keyword(k2.lex, <<"id">>), LAMBDA k3 :
        IF IsSome(k3.rv)
        THEN Bind(name(k3.lex), LAMBDA n :
                finish_say_loop([s EXCEPT !.lex = n.lex, !.identifier = n.rv]))
        ELSE
    Bind(parse_arguments(k3.lex), LAMBDA a :
        IF a.rv = Nothing THEN [s EXCEPT !.lex = a.lex]
        ELSE IF IsSome(s.arguments)
        THEN [s EXCEPT !.lex = Panic(a.lex, "say can only take a single set of arguments")]
        ELSE finish_say_loop([s EXCEPT !.lex = a.lex, !.arguments = a.rv])))))

\* AstNode::Say
SayNode(loc, who, what, s, attributes, temporary_attributes) ==
    [type |-> "Say", loc |-> loc, who |-> who, what |-> what, with |-> s.with,
     interact |-> s.interact, attributes |-> attributes, arguments |-> s.arguments,
     temporary_attributes |-> temporary_attributes, identifier |-> s.identifier]

\* AstNode::UserStatement
UserStatementNode(loc, text, block, parsed) ==
    [type |-> "UserStatement", loc |-> loc, line |-> text, block |-> block,
     parsed |-> parsed, code_block |-> Nothing]

\* finish_say: None for no text, one Say for one text, and for several texts one
\* node each, "nvl clear" standing for the text {clear}
finish_say(lex, loc, who, what, attributes, temporary_attributes, interact) ==
    IF Len(what) = 0 THEN [lex |-> lex, rv |-> Nothing]
    ELSE Bind(finish_say_loop([lex |-> lex, with |-> Nothing, arguments |-> Nothing,
                               identifier |-> Nothing, interact |-> interact]), LAMBDA s :
            [lex |-> s.lex,
             rv |-> IF Len(what) = 1
                    THEN Some(<<SayNode(loc, who, what[1], s, attributes,
                                        temporary_attributes)>>)
                    ELSE Some([i \in 1..Len(what) |->
                                IF what[i] = <<"{clear}">>
                                THEN UserStatementNode(loc, <<"nvl", " ", "clear">>, <<>>, FALSE)
                                ELSE SayNode(loc, who, what[i], s, attributes,
                                             temporary_attributes)])])

RECURSIVE say_attributes_loop(_, _)
\* the loop of say_attributes
say_attributes_loop(lex, attributes) ==
    Bind(rmatch(lex, "-"), LAMBDA prefix :
    Bind(image_name_component(prefix.lex), LAMBDA component :
        IF component.rv = Nothing THEN [lex |-> component.lex, rv |-> attributes]
        ELSE say_attributes_loop(component.lex,
                Append(attributes, (IF IsSome(prefix.rv) THEN Unwrap(prefix.rv) ELSE <<>>)
                                   \o Unwrap(component.rv)))))

\* say_attributes
say_attributes(lex) ==
    Bind(say_attributes_loop(lex, <<>>), LAMBDA r :
        [lex |-> r.lex, rv |-> IF Len(r.rv) > 0 THEN Some(r.rv) ELSE Nothing])

\* lex.triple_string(), else vec![lex.string()], else vec![]
say_what(lex) ==
    Bind(triple_string(lex), LAMBDA t :
        IF IsSome(t.rv) THEN [lex |-> t.lex, rv |-> Unwrap(t.rv)] ELSE
    Bind(string(t.lex), LAMBDA s :
        [lex |-> s.lex, rv |-> IF IsSome(s.rv) THEN <<Unwrap(s.rv)>> ELSE <<>>]))

\* Say::parse after lex.revert(state): the speaker, the attributes and the text
Say_parse_who(lex, loc) ==
    Bind(say_expression(lex), LAMBDA who :
    Bind(say_attributes(who.lex), LAMBDA at :
    Bind(rmatch(at.lex, "@"), LAMBDA m :
    Bind(IF IsSome(m.rv) THEN say_attributes(m.lex) ELSE [lex |-> m.lex, rv |-> Nothing],
         LAMBDA ta :
    Bind(say_what(ta.lex), LAMBDA w :
        IF IsSome(who.rv) /\ Len(w.rv) > 0
        THEN Bind(finish_say(w.lex, loc, Some(Trim(Unwrap(who.rv))), w.rv, at.rv, ta.rv, TRUE),
                  LAMBDA f :
                    [lex |-> advance(expect_noblock(expect_eol(f.lex))),
                     rv |-> IF IsSome(f.rv) THEN Unwrap(f.rv) ELSE <<>>])
        ELSE [lex |-> Panic(w.lex, "expected statement."), rv |-> <<>>])))))

\* Say::parse
Say_parse(lex, loc) ==
    Bind(say_what(lex), LAMBDA w :
    Bind(finish_say(w.lex, loc, Nothing, w.rv, Nothing, Nothing, TRUE), LAMBDA f :
        IF IsSome(f.rv)
        THEN [lex |-> advance(expect_noblock(f.lex)), rv |-> Unwrap(f.rv)]
        ELSE Say_parse_who(revert(f.lex, checkpoint(lex)), loc)))

\* UserStatement::parse: the whole line is kept as it stands
UserStatement_parse(lex, loc) ==
    [lex |-> advance(expect_noblock(lex)),
     rv |-> <<UserStatementNode(loc, lex.text, lex.subblock, TRUE)>>]

\* ------------------------------------------------ a line of dialogue under Say::parse

MaxSayLen == 4

\* what stands between the triple quotes
SayAtoms == {"a", " ", "\n", "{clear}"}

TripleQuote == <<"\"", "\"", "\"">>

\* the lines given: [who] """content"""
SayLines ==
    {who \o TripleQuote \o c \o TripleQuote :
        who \in {<<>>, <<"e", " ">>}, c \in SeqsUpTo(SayAtoms, MaxSayLen) \ {<<>>}}

\* the text between the triple quotes of the line given
SayContent(text) ==
    IF text[1] = "e" THEN SubSeq(text, 6, Len(text) - 3) ELSE SubSeq(text, 4, Len(text) - 3)

SayInit ==
    /\ sayLine \in SayLines
    /\ sayResult = Nothing

SayIdle ==
    /\ sayLine = <<>>
    /\ sayResult = Nothing

\* the lines given to see what stands after the dialogue: [who] "a", clauses, and
\* something after them or nothing
MaxSayClauses == 2
SayClauses == {<<" ", "with", " ", "d">>, <<" ", "nointeract">>, <<" ", "id", " ", "x">>}
SayAfter == {<<>>, <<" ">>, <<" ", "\"", "b", "\"">>, <<" ", "x">>}
SayTailLines ==
    {who \o <<"\"", "a", "\"">> \o join(cs, <<>>) \o after :
        who \in {<<>>, <<"e", " ">>}, cs \in SeqsUpTo(SayClauses, MaxSayClauses),
        after \in SayAfter}

SayTailInit ==
    /\ sayLine \in SayTailLines
    /\ sayResult = Nothing

\* parse_block on the one line: lex.advance(), then the statement, which is a say
SayStatement ==
    /\ sayResult = Nothing
    /\ sayLine # <<>>
    /\ sayResult' = Some(Bind(advance(NewLexer(<<Blk(1, sayLine, <<>>)>>)), LAMBDA l :
                            Say_parse(l, get_location(l))))
    /\ UNCHANGED <<sayLine, notSayVars>>

\* ------------------------------------------------------ parser.rs: parse_atl

\* parse_atl: warpers
warpers ==
    {"instant", "pause", "linear", "easeout", "easein", "ease", "easeout_quad",
     "easein_quad", "ease_quad", "easeout_cubic", "easein_cubic", "ease_cubic",
     "easeout_quart", "easein_quart", "ease_quart", "easeout_quint", "easein_quint",
     "ease_quint", "easeout_expo", "easein_expo", "ease_expo", "easeout_circ", "easein_circ",
     "ease_circ", "easeout_back", "easein_back", "ease_back", "easeout_elastic",
     "easein_elastic", "ease_elastic", "easeout_bounce", "easein_bounce", "ease_bounce"}

\* parse_atl: properties
atl_properties ==
    {"additive", "alpha", "blend", "blur", "corner1", "corner2", "crop", "crop_relative",
     "debug", "delay", "events", "fit", "matrixanchor", "matrixcolor", "matrixtransform",
     "maxsize", "mesh", "mesh_pad", "nearest", "perspective", "rotate", "rotate_pad",
     "point_to", "orientation", "xrotate", "yrotate", "zrotate", "shader",
     "show_cancels_hide", "subpixel", "transform_anchor", "zoom", "xanchoraround", "xanchor",
     "xaround", "xoffset", "xpan", "xpos", "xsize", "xtile", "xzoom", "yanchoraround",
     "yanchor", "yaround", "yoffset", "ypan", "ypos", "ysize", "ytile", "yzoom", "zpos",
     "zzoom", "gl_anisotropic", "gl_blend_func", "gl_color_mask", "gl_depth",
     "gl_drawable_resolution", "gl_mipmap", "gl_pixel_perfect", "gl_texture_scaling",
     "gl_texture_wrap", "alignaround", "align", "anchor", "anchorangle", "anchoraround",
     "anchorradius", "angle", "around", "offset", "pos", "radius", "size", "xalign",
     "xcenter", "xycenter", "xysize", "yalign", "ycenter", "u_lod_bias", "u_renpy_blur_log2",
     "u_renpy_solid_color", "u_renpy_dissolve", "u_renpy_dissolve_offset",
     "u_renpy_dissolve_multiplier", "u_renpy_matrixcolor", "u_renpy_alpha", "u_renpy_over",
     "u_renpy_mask_multiplier", "u_renpy_mask_offset"}

\* properties.contains(&prop) || prop.starts_with("u_"); a word is one lexeme here
IsAtlProperty(prop) == Len(prop) = 1 /\ prop[1] \in atl_properties

\* .unwrap() / .expect(msg) on what the lexer returned
unwrapped(r, msg) == IF r.rv = Nothing THEN [lex |-> Panic(r.lex, msg), rv |-> Nothing] ELSE r

\* a panic in a cursor made from lex ends the parse that lex belongs to
Join(lex, other) == IF other.panic # "" THEN Panic(lex, other.panic) ELSE lex

\* RawMultipurpose::new
RawMultipurpose_new(loc) ==
    [type |-> "RawMultipurpose", loc |-> loc, warper |-> Nothing, warp_function |-> Nothing,
     duration |-> Nothing, properties |-> <<>>, expressions |-> <<>>, splines |-> <<>>,
     revolution |-> Nothing, circles |-> Nothing]

\* the accumulator of the statement before, kept for the next statement
carried_rm(rm, loc) == rm

\* a statement that is not one of the keyword statements starts with
\* let mut rm = RawMultipurpose::new(loc): the accumulator of the statement before
\* is gone
fresh_rm(rm, loc) == RawMultipurpose_new(loc)

\* RawMultipurpose::add_warper
add_warper(rm, warper, duration, warp_function) ==
    [rm EXCEPT !.warper = warper, !.duration = duration, !.warp_function = warp_function]

\* RawMultipurpose::add_property: the accumulator with the property pushed, and the
\* name returned
add_property(rm, prop, exprs) ==
    [rm |-> [rm EXCEPT !.properties = Append(@, <<prop, exprs>>)],
     rv |-> Bind(AddPropertyResult(rm.properties, prop), LAMBDA r :
                IF r = None THEN Nothing ELSE Some(r))]

\* RawBlock
RawBlock(loc, statements, animation) ==
    [type |-> "RawBlock", loc |-> loc, statements |-> statements, animation |-> animation]

\* what one pass of parse_atl's while loop gives: the cursor, what it pushed to
\* statements, whether it set animation, whether parse_atl returns None here, the
\* accumulator, and, as history, the parent cursor before and after a nested block,
\* the properties the accumulator held when the statement began, and the property
\* add_property objected to with the properties held at that call
AtlResult(lex, push, rm) ==
    [lex |-> lex, push |-> push, animation |-> FALSE, none |-> FALSE, rm |-> rm,
     delegated |-> FALSE, before |-> Nothing, after |-> Nothing, inherited |-> <<>>,
     objection |-> Nothing]

RECURSIVE knots_loop(_, _)
\* while ll.keyword("knot").is_some() { knots.push(...) }
knots_loop(lex, knots) ==
    Bind(keyword(lex, <<"knot">>), LAMBDA k :
        IF k.rv = Nothing THEN [lex |-> k.lex, rv |-> knots]
        ELSE Bind(unwrapped(simple_expression(k.lex, FALSE, TRUE), "unwrap"), LAMBDA e :
                IF e.rv = Nothing THEN [lex |-> e.lex, rv |-> knots]
                ELSE knots_loop(e.lex, Append(knots, Unwrap(e.rv)))))

\* the warper's colon: ll.expect_eol(), ll.expect_block(), lex.revert(ll.checkpoint()),
\* and ll becomes the cursor of the nested block, on its first line
mp_open_block(s) ==
    IF IsSome(s.warper) /\ ~s.has_block
    THEN Bind(rmatch(s.ll, ":"), LAMBDA m :
            IF m.rv = Nothing THEN [s EXCEPT !.ll = m.lex]
            ELSE Bind(expect_block(expect_eol(m.lex)), LAMBDA l :
                 Bind(Join(IF s.first_lex THEN revert(s.lex, checkpoint(l)) ELSE s.lex, l),
                      LAMBDA parent :
                        [s EXCEPT !.has_block = TRUE, !.first_lex = FALSE, !.lex = parent,
                                  !.before = Some(Observable(parent)),
                                  !.ll = expect_noblock(advance(subblock_lexer(parent, FALSE)))])))
    ELSE s

\* if has_block && ll.eol() { ll.advance(); ll.expect_noblock(); }
mp_next_line(s) ==
    IF s.has_block
    THEN Bind(eol(s.ll), LAMBDA e :
            [s EXCEPT !.ll = IF e.rv THEN expect_noblock(advance(e.lex)) ELSE e.lex])
    ELSE s

\* match ll.name(): a property with its value, its knots, and add_property's verdict;
\* more tells whether the loop goes on
mp_property(s, n) ==
    Bind(unwrapped(simple_expression(n.lex, FALSE, TRUE), "unwrap"), LAMBDA e :
    Bind(knots_loop(e.lex, <<>>), LAMBDA k :
        IF k.lex.panic # "" THEN [s EXCEPT !.ll = k.lex, !.more = FALSE]
        ELSE IF Len(k.rv) > 0
        THEN IF Unwrap(n.rv) = <<"orientation">>
             THEN [s EXCEPT !.ll = Panic(k.lex, "Orientation doesn't support spline."),
                            !.more = FALSE]
             ELSE [s EXCEPT !.ll = k.lex,
                            !.rm.splines = Append(@, <<Unwrap(n.rv)[1],
                                                       Append(k.rv, Unwrap(e.rv))>>)]
        ELSE Bind(add_property(s.rm, Unwrap(n.rv)[1], Unwrap(e.rv)), LAMBDA ap :
                IF IsSome(ap.rv)
                THEN [s EXCEPT !.rm = ap.rm, !.more = FALSE,
                          !.objection = Some([old |-> Unwrap(ap.rv),
                                              held |-> s.rm.properties]),
                          !.ll = Panic(k.lex,
                                       IF ap.rv = Some(Unwrap(n.rv)[1])
                                       THEN "property is given a value more than once"
                                       ELSE "properties conflict with each other")]
                ELSE [s EXCEPT !.ll = k.lex, !.rm = ap.rm])))

\* an expression clause that is taken whatever stood before it
mp_expression_any(s) ==
    Bind(simple_expression(s.ll, FALSE, TRUE), LAMBDA e :
        IF e.rv = Nothing THEN [s EXCEPT !.ll = e.lex, !.more = FALSE]
        ELSE Bind(keyword(e.lex, <<"with">>), LAMBDA w :
             Bind(IF IsSome(w.rv) THEN unwrapped(simple_expression(w.lex, FALSE, TRUE), "unwrap")
                  ELSE [lex |-> w.lex, rv |-> Nothing], LAMBDA we :
                [s EXCEPT !.ll = we.lex, !.this_expression = TRUE,
                          !.rm.expressions = Append(@, <<Unwrap(e.rv), we.rv>>)])))

\* ll.simple_expression(false, true) with its with clause; without an expression the
\* loop breaks
mp_expression(s) ==
    Bind(simple_expression(s.ll, FALSE, TRUE), LAMBDA e :
        IF e.rv = Nothing THEN [s EXCEPT !.ll = e.lex, !.more = FALSE]
        ELSE IF s.last_expression
        THEN [s EXCEPT !.ll = Panic(e.lex, "ATL statement contains two expressions in a row"),
                       !.more = FALSE]
        ELSE Bind(keyword(e.lex, <<"with">>), LAMBDA w :
             Bind(IF IsSome(w.rv) THEN unwrapped(simple_expression(w.lex, FALSE, TRUE), "unwrap")
                  ELSE [lex |-> w.lex, rv |-> Nothing], LAMBDA we :
                [s EXCEPT !.ll = we.lex, !.this_expression = TRUE,
                          !.rm.expressions = Append(@, <<Unwrap(e.rv), we.rv>>)])))

\* one pass of the loop over the parts of a statement; s holds lex, ll, rm and the
\* locals warper, has_block, first_lex, last_expression and this_expression
mp_pass(s) ==
    Bind(mp_next_line(mp_open_block(s)), LAMBDA a :
    Bind([a EXCEPT !.last_expression = a.this_expression, !.this_expression = FALSE],
         LAMBDA c :
    Bind(keyword(c.ll, <<"pass">>), LAMBDA k1 :
        IF IsSome(k1.rv) THEN [c EXCEPT !.ll = k1.lex] ELSE
    Bind(keyword(k1.lex, <<"clockwise">>), LAMBDA k2 :
        IF IsSome(k2.rv)
        THEN [c EXCEPT !.ll = k2.lex, !.rm.revolution = Some(<<"clockwise">>)] ELSE
    Bind(keyword(k2.lex, <<"counterclockwise">>), LAMBDA k3 :
        IF IsSome(k3.rv)
        THEN [c EXCEPT !.ll = k3.lex, !.rm.revolution = Some(<<"counterclockwise">>)] ELSE
    Bind(keyword(k3.lex, <<"circles">>), LAMBDA k4 :
        IF IsSome(k4.rv)
        THEN Bind(unwrapped(simple_expression(c.lex, FALSE, TRUE), "unwrap"), LAMBDA e :
                [c EXCEPT !.ll = k4.lex, !.lex = e.lex, !.rm.circles = e.rv])
        ELSE
    Bind(name(k4.lex), LAMBDA n :
        IF IsSome(n.rv) /\ IsAtlProperty(Unwrap(n.rv))
        THEN mp_property([c EXCEPT !.ll = n.lex], n)
        ELSE mp_expression([c EXCEPT !.ll = revert(n.lex, checkpoint(k4.lex))]))))))))

RECURSIVE mp_loop(_)
\* the loop over the parts of a statement, until a break or a panic
mp_loop(s) ==
    IF s.lex.panic # "" \/ s.ll.panic # "" \/ ~s.more THEN s ELSE mp_loop(mp_pass(s))

\* the warper of a statement: [lex, warper, duration, warp_function]
mp_warper(lex) ==
    Bind(name(lex), LAMBDA w :
        IF IsSome(w.rv) /\ Len(Unwrap(w.rv)) = 1 /\ Unwrap(w.rv)[1] \in warpers
        THEN Bind(unwrapped(simple_expression(w.lex, FALSE, TRUE), "unwrap"), LAMBDA d :
                [lex |-> d.lex, warper |-> w.rv, duration |-> d.rv, warp_function |-> Nothing])
        ELSE IF w.rv = Some(<<"warp">>)
        THEN Bind(unwrapped(simple_expression(w.lex, FALSE, TRUE), "unwrap"), LAMBDA f :
             Bind(unwrapped(simple_expression(f.lex, FALSE, TRUE), "unwrap"), LAMBDA d :
                [lex |-> d.lex, warper |-> Nothing, duration |-> d.rv, warp_function |-> f.rv]))
        ELSE [lex |-> revert(w.lex, checkpoint(lex)), warper |-> Nothing, duration |-> Nothing,
              warp_function |-> Nothing])

\* the last branch of parse_atl's loop: a statement of a warper, properties and
\* expressions, with the block a warper's colon opens; at its end
\* lex.revert(ll.checkpoint())
atl_multipurpose(lex, rm) ==
    Bind(mp_warper(lex), LAMBDA w :
    Bind(mp_loop([lex |-> w.lex, ll |-> w.lex, warper |-> w.warper,
                  rm |-> add_warper(rm, w.warper, w.duration, w.warp_function),
                  has_block |-> FALSE, first_lex |-> TRUE, last_expression |-> FALSE,
                  this_expression |-> FALSE, more |-> TRUE, before |-> Nothing,
                  objection |-> Nothing]),
         LAMBDA s :
    Bind(Join(revert(IF s.has_block THEN s.lex ELSE expect_noblock(s.lex), checkpoint(s.ll)),
              s.ll), LAMBDA parent :
        [AtlResult(parent, <<Some(s.rm)>>, s.rm)
            EXCEPT !.delegated = s.has_block, !.before = s.before,
                   !.after = Some(Observable(parent)), !.inherited = rm.properties,
                   !.objection = s.objection])))

RECURSIVE on_names(_, _)
\* while lex.rmatch(",").is_some() { names.push(...) }
on_names(lex, names) ==
    Bind(rmatch(lex, ","), LAMBDA c :
        IF c.rv = Nothing THEN [lex |-> c.lex, rv |-> names]
        ELSE Bind(word(c.lex), LAMBDA n :
                IF n.rv = Nothing THEN [lex |-> n.lex, rv |-> names]
                ELSE on_names(n.lex, Append(names, Unwrap(n.rv)))))

\* what the keyword tests of a statement give: the keyword found, the cursor, what
\* was read after the keyword, and whether a nested block follows
AtlHead(kind, lex, arg, nested) == [kind |-> kind, lex |-> lex, arg |-> arg, nested |-> nested]

\* lex.require(":").unwrap(); lex.expect_eol(); lex.expect_block()
atl_colon(lex) ==
    Bind(unwrapped(rmatch(lex, ":"), "unwrap"), LAMBDA c : expect_block(expect_eol(c.lex)))

\* the keyword tests at the start of a statement, each with what it reads up to the
\* nested block
atl_head(lex) ==
    Bind(keyword(lex, <<"repeat">>), LAMBDA k1 :
        IF IsSome(k1.rv)
        THEN Bind(simple_expression(k1.lex, FALSE, TRUE), LAMBDA e :
                AtlHead("repeat", e.lex, e.rv, FALSE))
        ELSE
    Bind(keyword(k1.lex, <<"block">>), LAMBDA k2 :
        IF IsSome(k2.rv) THEN AtlHead("block", atl_colon(k2.lex), Nothing, TRUE) ELSE
    Bind(keyword(k2.lex, <<"contains">>), LAMBDA k3 :
        IF IsSome(k3.rv)
        THEN Bind(simple_expression(k3.lex, FALSE, TRUE), LAMBDA e :
                IF IsSome(e.rv) THEN AtlHead("contains", expect_noblock(e.lex), e.rv, FALSE)
                ELSE AtlHead("child", atl_colon(e.lex), Nothing, TRUE))
        ELSE
    Bind(keyword(k3.lex, <<"parallel">>), LAMBDA k4 :
        IF IsSome(k4.rv) THEN AtlHead("parallel", atl_colon(k4.lex), Nothing, TRUE) ELSE
    Bind(keyword(k4.lex, <<"choice">>), LAMBDA k5 :
        IF IsSome(k5.rv)
        THEN Bind(simple_expression(k5.lex, FALSE, TRUE), LAMBDA e :
                AtlHead("choice", atl_colon(e.lex),
                        IF IsSome(e.rv) THEN e.rv ELSE Some(<<"1.0">>), TRUE))
        ELSE
    Bind(keyword(k5.lex, <<"on">>), LAMBDA k6 :
        IF IsSome(k6.rv)
        THEN Bind(word(k6.lex), LAMBDA first :
                IF first.rv = Nothing THEN AtlHead("none", first.lex, Nothing, FALSE)
                ELSE Bind(on_names(first.lex, <<Unwrap(first.rv)>>), LAMBDA ns :
                        AtlHead("on", atl_colon(ns.lex), Some(ns.rv), TRUE)))
        ELSE
    Bind(keyword(k6.lex, <<"time">>), LAMBDA k7 :
        IF IsSome(k7.rv)
        THEN Bind(unwrapped(simple_expression(k7.lex, FALSE, TRUE), "unwrap"), LAMBDA e :
                AtlHead("time", expect_noblock(e.lex), e.rv, FALSE))
        ELSE
    Bind(keyword(k7.lex, <<"function">>), LAMBDA k8 :
        IF IsSome(k8.rv)
        THEN Bind(unwrapped(simple_expression(k8.lex, FALSE, TRUE), "unwrap"), LAMBDA e :
                AtlHead("function", expect_noblock(e.lex), e.rv, FALSE))
        ELSE
    Bind(keyword(k8.lex, <<"event">>), LAMBDA k9 :
        IF IsSome(k9.rv)
        THEN Bind(unwrapped(word(k9.lex), "unwrap"), LAMBDA n :
                AtlHead("event", expect_noblock(n.lex), n.rv, FALSE))
        ELSE
    Bind(keyword(k9.lex, <<"pass">>), LAMBDA k10 :
        IF IsSome(k10.rv) THEN AtlHead("pass", expect_noblock(k10.lex), Nothing, FALSE) ELSE
    Bind(keyword(k10.lex, <<"animation">>), LAMBDA k11 :
        IF IsSome(k11.rv) THEN AtlHead("animation", expect_noblock(k11.lex), Nothing, FALSE)
        ELSE AtlHead("multipurpose", k11.lex, Nothing, FALSE))))))))))))

\* the node a keyword statement pushes to statements
AtlNode(kind, loc, arg, block) ==
    CASE kind = "repeat" -> [type |-> "RawRepeat", loc |-> loc, repeats |-> arg]
      [] kind = "block" -> Unwrap(block)
      [] kind = "contains" -> [type |-> "RawContainsExpr", loc |-> loc, expr |-> Unwrap(arg)]
      [] kind = "child" -> [type |-> "RawChild", loc |-> loc, child |-> Unwrap(block)]
      [] kind = "parallel" -> [type |-> "RawParallel", loc |-> loc, block |-> Unwrap(block)]
      [] kind = "choice" -> [type |-> "RawChoice", loc |-> loc, block |-> Unwrap(block),
                             chance |-> Unwrap(arg)]
      [] kind = "on" -> [type |-> "RawOn", loc |-> loc, names |-> Unwrap(arg),
                         block |-> Unwrap(block)]
      [] kind = "time" -> [type |-> "RawTime", loc |-> loc, time |-> arg]
      [] kind = "function" -> [type |-> "RawFunction", loc |-> loc, expr |-> arg]
      [] kind = "event" -> [type |-> "RawEvent", loc |-> loc, name |-> arg]

RECURSIVE parse_atl(_, _)
RECURSIVE atl_statement(_, _, _)
RECURSIVE atl_iteration(_, _, _)
RECURSIVE parse_atl_loop(_, _, _, _, _, _)

\* one statement of an ATL block, from the keyword tests to the push to statements;
\* a nested block is parsed by parse_atl(&mut lex.subblock_lexer(false))?
atl_statement(lex, rm, fuel) ==
    Bind(atl_head(lex), LAMBDA h :
        IF h.nested
        THEN Bind(parse_atl(subblock_lexer(h.lex, FALSE), fuel), LAMBDA sub :
             Bind(Join(h.lex, sub.lex), LAMBDA parent :
                [AtlResult(parent,
                           IF IsSome(sub.rv)
                           THEN <<Some(AtlNode(h.kind, get_location(lex), h.arg, sub.rv))>>
                           ELSE <<>>, rm)
                    EXCEPT !.none = (sub.rv = Nothing), !.delegated = TRUE,
                           !.before = Some(Observable(h.lex)),
                           !.after = Some(Observable(parent))]))
        ELSE IF h.kind = "multipurpose"
        THEN atl_multipurpose(h.lex, fresh_rm(rm, get_location(lex)))
        ELSE IF h.kind = "none"
        THEN [AtlResult(h.lex, <<>>, rm) EXCEPT !.none = TRUE]
        ELSE IF h.kind = "pass" THEN AtlResult(h.lex, <<Nothing>>, rm)
        ELSE IF h.kind = "animation"
        THEN [AtlResult(h.lex, <<>>, rm) EXCEPT !.animation = TRUE]
        ELSE AtlResult(h.lex, <<Some(AtlNode(h.kind, get_location(lex), h.arg, Nothing))>>, rm))

\* the end of a pass of the loop: the end of the line, or the comma before the
\* next statement of the line
atl_separator(lex) ==
    Bind(eol(lex), LAMBDA e :
        IF e.rv THEN advance(e.lex)
        ELSE unwrapped(rmatch(e.lex, ","), "comma or end of line").lex)

\* one pass of parse_atl's while loop
atl_iteration(lex, rm, fuel) ==
    Bind(atl_statement(lex, rm, fuel), LAMBDA r :
        IF r.none THEN r ELSE [r EXCEPT !.lex = atl_separator(r.lex)])

\* parse_atl's while loop; a loop that would not end is cut off after fuel passes
parse_atl_loop(lex, block_loc, statements, animation, rm, fuel) ==
    IF lex.panic # "" THEN [lex |-> lex, rv |-> Nothing]
    ELSE IF lex.eob THEN [lex |-> lex, rv |-> Some(RawBlock(block_loc, statements, animation))]
    ELSE IF fuel = 0 THEN [lex |-> Panic(lex, "parse_atl does not return"), rv |-> Nothing]
    ELSE Bind(atl_iteration(lex, rm, fuel - 1), LAMBDA r :
            IF r.none THEN [lex |-> r.lex, rv |-> Nothing]
            ELSE parse_atl_loop(r.lex, block_loc, statements \o r.push,
                                animation \/ r.animation, r.rm, fuel - 1))

\* parse_atl
parse_atl(lex, fuel) ==
    Bind(advance(lex), LAMBDA l :
        parse_atl_loop(l, get_location(l), <<>>, FALSE,
                       RawMultipurpose_new(get_location(l)), fuel))

\* ------------------------------------------------- an ATL block under parse_atl

\* the passes of its loop that parse_atl is followed through
MaxAtlPasses == 5
\* the lines of the block given
MaxAtlLines == 3

AtlLinear100 == <<"linear", " ", "1.0", " ", "xpos", " ", "100">>
AtlLinear200 == <<"linear", " ", "1.0", " ", "xpos", " ", "200">>
AtlYpos == <<"ypos", " ", "5">>
AtlXpos == <<"xpos", " ", "100">>
AtlTwice == <<"xpos", " ", "100", " ", "xpos", " ", "200">>
AtlWarperColon == <<"linear", " ", "1.0", ":">>

\* the texts a line of the block is taken from, with the block under the line
AtlLines ==
    {<<AtlLinear100, <<>> >>, <<AtlLinear200, <<>> >>, <<AtlYpos, <<>> >>,
     <<AtlTwice, <<>> >>,
     <<AtlLinear100 \o <<",", " ">> \o AtlLinear200, <<>> >>,
     <<AtlYpos \o <<",", " ">> \o AtlLinear100, <<>> >>,
     <<(<<"pass">>), <<>> >>,
     <<(<<"block", ":">>), <<AtlYpos>> >>,
     <<AtlWarperColon, <<AtlYpos>> >>,
     <<AtlWarperColon, <<AtlYpos, AtlXpos>> >>}

\* line i of a block has number 10 * i, and line j of the block under it 10 * i + j
AtlBlockOf(ls) ==
    [i \in 1..Len(ls) |->
        Blk(10 * i, ls[i][1], [j \in 1..Len(ls[i][2]) |-> Blk(10 * i + j, ls[i][2][j], <<>>)])]

AtlBlocks == {AtlBlockOf(ls) : ls \in SeqsUpTo(AtlLines, MaxAtlLines) \ {<<>>}}

AtlInit ==
    /\ atl = [lex |-> NewLexer(<<>>), block_loc |-> <<"", 0>>, statements |-> <<>>,
              animation |-> FALSE, rm |-> RawMultipurpose_new(<<"", 0>>), at |-> "new"]
    /\ atlBlock \in AtlBlocks
    /\ atlVisited = <<>>
    /\ atlLast = AtlResult(NewLexer(<<>>), <<>>, RawMultipurpose_new(<<"", 0>>))

AtlIdle ==
    /\ atl = [lex |-> NewLexer(<<>>), block_loc |-> <<"", 0>>, statements |-> <<>>,
              animation |-> FALSE, rm |-> RawMultipurpose_new(<<"", 0>>), at |-> "new"]
    /\ atlBlock = <<>>
    /\ atlVisited = <<>>
    /\ atlLast = AtlResult(NewLexer(<<>>), <<>>, RawMultipurpose_new(<<"", 0>>))

\* the clauses a statement of expressions is made of: an expression, an expression
\* with its with clause, pass, and a property with its value
MaxClauses == 3
ExprClauses ==
    {<<"a">>, <<"b">>, <<"a", " ", "with", " ", "d">>, <<"pass">>, <<"ypos", " ", "5">>}
\* the clauses one after the other, a space between two; a statement that begins
\* with pass is the pass statement and none of these
ExprLines == {join(cs, <<" ">>) : cs \in {c \in SeqsUpTo(ExprClauses, MaxClauses) \ {<<>>} : c[1] # <<"pass">>}}

\* parse_atl on a block of one line, a statement of expressions
ExprInit ==
    /\ atl = [lex |-> NewLexer(<<>>), block_loc |-> <<"", 0>>, statements |-> <<>>,
              animation |-> FALSE, rm |-> RawMultipurpose_new(<<"", 0>>), at |-> "new"]
    /\ atlBlock \in {AtlBlockOf(<< <<t, <<>> >> >>) : t \in ExprLines}
    /\ atlVisited = <<>>
    /\ atlLast = AtlResult(NewLexer(<<>>), <<>>, RawMultipurpose_new(<<"", 0>>))

\* parse_atl is entered: lex.advance(), block_loc
AtlEnter ==
    /\ atl.at = "new"
    /\ atlBlock # <<>>
    /\ atl' = Bind(advance(NewLexer(atlBlock)), LAMBDA l :
                [atl EXCEPT !.lex = l, !.block_loc = get_location(l), !.at = "loop"])
    /\ UNCHANGED <<atlBlock, atlVisited, atlLast, notAtlVars>>

\* one pass of the while loop
AtlPass ==
    /\ atl.at = "loop"
    /\ ~atl.lex.eob
    /\ Len(atlVisited) < MaxAtlPasses
    /\ atlLast' = atl_iteration(atl.lex, atl.rm, MaxAtlPasses)
    /\ atlVisited' = Append(atlVisited, <<atl.lex.line[1], atl.lex.pos>>)
    /\ atl' = [atl EXCEPT !.lex = atlLast'.lex,
                          !.statements = @ \o atlLast'.push,
                          !.animation = @ \/ atlLast'.animation,
                          !.rm = atlLast'.rm,
                          !.at = IF atlLast'.lex.panic # "" THEN "panic"
                                 ELSE IF atlLast'.none THEN "none" ELSE "loop"]
    /\ UNCHANGED <<atlBlock, notAtlVars>>

\* the while loop ends: Some(RawBlock { .. })
AtlReturn ==
    /\ atl.at = "loop"
    /\ atl.lex.eob
    /\ atl' = [atl EXCEPT !.at = "done"]
    /\ UNCHANGED <<atlBlock, atlVisited, atlLast, notAtlVars>>

AtlNext ==
    \/ AtlEnter
    \/ AtlPass
    \/ AtlReturn

\* ------------------------------------------------ parser.rs: parse_parameters

\* parameters.contains_key(&name)
contains_key(parameters, n) == \E i \in 1..Len(parameters) : parameters[i].name = n

\* Parameter { name, kind, default }
Parameter(n, kind, default) == [name |-> n, kind |-> kind, default |-> default]

\* the locals of parse_parameters with the cursor; stop tells that the loop was left
PpPanic(s, msg) == [s EXCEPT !.lex = Panic(s.lex, msg), !.stop = TRUE]

\* **name: the var-keyword parameter, which ends the list
pp_var_keyword(s) ==
    Bind(unwrapped(name(s.lex), "unwrap"), LAMBDA n :
        IF n.rv = Nothing THEN [s EXCEPT !.lex = n.lex, !.stop = TRUE]
        ELSE IF contains_key(s.parameters, Unwrap(n.rv))
        THEN PpPanic([s EXCEPT !.lex = n.lex], "duplicate parameter name")
        ELSE Bind(rmatch(n.lex, "="), LAMBDA eq :
                IF IsSome(eq.rv)
                THEN PpPanic([s EXCEPT !.lex = eq.lex],
                             "a var-keyword parameter cannot have a default value")
                ELSE Bind(rmatch(rmatch(eq.lex, ",").lex, ")"), LAMBDA c :
                        IF c.rv = Nothing
                        THEN PpPanic([s EXCEPT !.lex = c.lex],
                                     "no parameter can follow a var-keyword parameter")
                        ELSE [s EXCEPT !.lex = c.lex, !.stop = TRUE,
                                       !.parameters = Append(@, Parameter(Unwrap(n.rv),
                                                                "VarKeyword", Nothing))])))

\* *name or a bare *
pp_var_positional(s) ==
    IF s.now_kwonly THEN PpPanic(s, "* may appear only once")
    ELSE Bind(name(s.lex), LAMBDA n :
            IF n.rv = Nothing
            THEN [s EXCEPT !.lex = n.lex, !.now_kwonly = TRUE, !.kind = "VarPositional",
                           !.now_default = FALSE, !.missing_kwonly = TRUE]
            ELSE IF contains_key(s.parameters, Unwrap(n.rv))
            THEN PpPanic([s EXCEPT !.lex = n.lex], "duplicate parameter name")
            ELSE Bind(rmatch(n.lex, "="), LAMBDA eq :
                    IF IsSome(eq.rv)
                    THEN PpPanic([s EXCEPT !.lex = eq.lex],
                                 "a var-positional parameter cannot have a default value")
                    ELSE [s EXCEPT !.lex = eq.lex, !.now_kwonly = TRUE,
                                   !.kind = "VarPositional", !.now_default = FALSE,
                                   !.parameters = Append(@, Parameter(Unwrap(n.rv),
                                                            "VarPositional", Nothing))]))

\* the slash taken without asking whether one was seen before
pp_slash_again(s) ==
    IF s.now_kwonly THEN PpPanic(s, "/ must be ahead of *")
    ELSE IF Len(s.parameters) = 0 THEN PpPanic(s, "at least one parameter must precede /")
    ELSE [s EXCEPT !.got_slash = TRUE,
                   !.parameters = [i \in 1..Len(s.parameters) |->
                                     [s.parameters[i] EXCEPT !.kind = "PositionalOnly"]]]

\* /: the parameters so far become positional-only
pp_slash(s) ==
    IF s.now_kwonly THEN PpPanic(s, "/ must be ahead of *")
    ELSE IF s.got_slash THEN PpPanic(s, "/ may appear only once")
    ELSE IF Len(s.parameters) = 0 THEN PpPanic(s, "at least one parameter must precede /")
    ELSE [s EXCEPT !.got_slash = TRUE,
                   !.parameters = [i \in 1..Len(s.parameters) |->
                                     [s.parameters[i] EXCEPT !.kind = "PositionalOnly"]]]

\* name or name = default
pp_named(s) ==
    Bind(unwrapped(name(s.lex), "unwrap"), LAMBDA n :
        IF n.rv = Nothing THEN [s EXCEPT !.lex = n.lex, !.stop = TRUE]
        ELSE Bind(rmatch(n.lex, "="), LAMBDA eq :
             Bind(IF IsSome(eq.rv) THEN delimited_python(skip_whitespace(eq.lex), {")", ","})
                  ELSE [lex |-> eq.lex, rv |-> Nothing], LAMBDA d :
                IF d.lex.panic # "" THEN [s EXCEPT !.lex = d.lex, !.stop = TRUE]
                ELSE IF IsSome(eq.rv) /\ d.rv = Nothing
                THEN PpPanic([s EXCEPT !.lex = d.lex], "empty default value for parameter")
                ELSE IF eq.rv = Nothing /\ s.now_default /\ ~s.now_kwonly
                THEN PpPanic([s EXCEPT !.lex = d.lex],
                             "non-default parameter follows a default parameter")
                ELSE IF contains_key(s.parameters, Unwrap(n.rv))
                THEN PpPanic([s EXCEPT !.lex = d.lex], "duplicate parameter name")
                ELSE [s EXCEPT !.lex = d.lex, !.missing_kwonly = FALSE,
                               !.now_default = IF IsSome(eq.rv) THEN TRUE ELSE @,
                               !.parameters = Append(@, Parameter(Unwrap(n.rv), s.kind,
                                                                  d.rv))])))

\* the body of the while loop up to the closing parenthesis or the comma
pp_item(s) ==
    Bind(rmatch_literal(s.lex, <<"*", "*">>), LAMBDA kw :
        IF IsSome(kw.rv) THEN pp_var_keyword([s EXCEPT !.lex = kw.lex]) ELSE
    Bind(rmatch(kw.lex, "*"), LAMBDA st :
        IF IsSome(st.rv) THEN pp_var_positional([s EXCEPT !.lex = st.lex]) ELSE
    Bind(rmatch_literal(st.lex, <<"/", "*">>), LAMBDA ss :
        IF IsSome(ss.rv)
        THEN PpPanic([s EXCEPT !.lex = ss.lex], "expected comma between / and *") ELSE
    Bind(rmatch(ss.lex, "/"), LAMBDA sl :
        IF IsSome(sl.rv) THEN pp_slash([s EXCEPT !.lex = sl.lex])
        ELSE pp_named([s EXCEPT !.lex = sl.lex])))))

RECURSIVE pp_loop(_)
\* while lex.rmatch(r"\)").is_none() { ... }
pp_loop(s) ==
    IF s.lex.panic # "" \/ s.stop THEN s
    ELSE Bind(rmatch(s.lex, ")"), LAMBDA c :
            IF IsSome(c.rv) THEN [s EXCEPT !.lex = c.lex, !.stop = TRUE]
            ELSE Bind(pp_item([s EXCEPT !.lex = c.lex]), LAMBDA t :
                    IF t.lex.panic # "" \/ t.stop THEN t
                    ELSE Bind(rmatch(t.lex, ")"), LAMBDA e :
                            IF IsSome(e.rv) THEN [t EXCEPT !.lex = e.lex, !.stop = TRUE]
                            ELSE pp_loop([t EXCEPT !.lex = rmatch(e.lex, ",").lex]))))

\* parse_parameters
parse_parameters(lex) ==
    Bind(rmatch(lex, "("), LAMBDA o :
        IF o.rv = Nothing THEN [lex |-> o.lex, rv |-> Nothing]
        ELSE Bind(pp_loop([lex |-> o.lex, parameters |-> <<>>, got_slash |-> FALSE,
                           now_kwonly |-> FALSE, kind |-> "PositionalOrKeyword",
                           missing_kwonly |-> FALSE, now_default |-> FALSE, stop |-> FALSE]),
                  LAMBDA s :
                    IF s.lex.panic # "" THEN [lex |-> s.lex, rv |-> Nothing]
                    ELSE IF s.missing_kwonly
                    THEN [lex |-> Panic(s.lex, "a bare * must be followed by a parameter"),
                          rv |-> Nothing]
                    ELSE [lex |-> s.lex, rv |-> Some([parameters |-> s.parameters])]))

\* -------------------------------------- a parameter list under parse_parameters

\* the parameters of a signature
MaxParams == 3

\* the parameters a signature is written with: the form, the name and whether a
\* default value follows
ParamForms ==
    [form : {"named", "star", "kw"}, name : {"a", "b"}, default : BOOLEAN]
    \cup [form : {"bare", "slash"}, name : {""}, default : {FALSE}]

\* a parameter as written
ParamText(p) ==
    (CASE p.form = "named" -> <<p.name>>
       [] p.form = "star" -> <<"*", p.name>>
       [] p.form = "kw" -> <<"*", "*", p.name>>
       [] p.form = "bare" -> <<"*">>
       [] p.form = "slash" -> <<"/">>)
    \o (IF p.default THEN <<" ", "=", " ", "1">> ELSE <<>>)

RECURSIVE JoinParams(_)
JoinParams(ps) ==
    IF Len(ps) = 0 THEN <<>>
    ELSE IF Len(ps) = 1 THEN ParamText(ps[1])
    ELSE ParamText(ps[1]) \o <<",", " ">> \o JoinParams(Tail(ps))

\* the signature as written: ( parameter, parameter, ... )
SignatureText(ps) == <<"(">> \o JoinParams(ps) \o <<")">>

ParamsInit ==
    /\ signature \in SeqsUpTo(ParamForms, MaxParams) \ {<<>>}
    /\ parsedParams = Nothing

ParamsIdle ==
    /\ signature = <<>>
    /\ parsedParams = Nothing

\* parse_parameters on a cursor standing at the opening parenthesis
ParseParameters ==
    /\ parsedParams = Nothing
    /\ signature # <<>>
    /\ parsedParams' = Some(parse_parameters(
                               advance(NewLexer(<<Blk(1, SignatureText(signature), <<>>)>>))))
    /\ UNCHANGED <<signature, notParamsVars>>

\* ------------------------------------------------------ trie.rs: ParseTrie

\* ParseTrie::init: the statements added, each under its words
Statement(words, parser) == [name |-> words, parser |-> parser]

custom_statements ==
    {<<"play", "music">>, <<"queue", "music">>, <<"stop", "music">>, <<"play", "sound">>,
     <<"queue", "sound">>, <<"stop", "sound">>, <<"play">>, <<"queue">>, <<"stop">>,
     <<"pause">>, <<"show", "screen">>, <<"call", "screen">>, <<"hide", "screen">>,
     <<"nvl", "show">>, <<"nvl", "hide">>, <<"nvl", "clear">>, <<"window", "show">>,
     <<"window", "hide">>, <<"window", "auto">>, <<"resumeaudio">>, <<"pauseaudio">>,
     <<"timedchoice">>, <<"gameover">>, <<"text">>, <<"msg">>, <<"title">>, <<"outfit">>,
     <<"accessory">>, <<"body">>, <<"swap">>, <<"clone">>, <<"morph">>, <<"exspirit">>,
     <<"possess">>, <<"scry">>, <<"placeholder">>, <<"routename">>, <<"unlock">>,
     <<"resetstate">>, <<"FIXME">>, <<"phone_call">>}

ParseTrie_init ==
    {Statement(<<"label">>, "Label"), Statement(<<"scene">>, "Scene"),
     Statement(<<"with">>, "With"), Statement(<<"">>, "Say"), Statement(<<"show">>, "Show"),
     Statement(<<"hide">>, "Hide"), Statement(<<"$">>, "PythonOneLine"),
     Statement(<<"jump">>, "Jump"), Statement(<<"menu">>, "Menu"), Statement(<<"if">>, "If"),
     Statement(<<"return">>, "Return"), Statement(<<"style">>, "Style"),
     Statement(<<"init">>, "Init"), Statement(<<"python">>, "Python"),
     Statement(<<"define">>, "Define"), Statement(<<"default">>, "Default_"),
     Statement(<<"call">>, "Call"), Statement(<<"pass">>, "Pass"),
     Statement(<<"transform">>, "Transform"), Statement(<<"screen">>, "Screen"),
     Statement(<<"image">>, "Image")}
    \cup {Statement(c, "UserStatement") : c \in custom_statements}

\* self.words of the node reached by the words of path, as ParseTrie::add built it
trie_words(path) ==
    {st.name[Len(path) + 1] :
        st \in {t \in ParseTrie_init :
                  Len(t.name) > Len(path) /\ SubSeq(t.name, 1, Len(path)) = path}}

\* self.default of the node reached by the words of path
trie_default(path) ==
    IF \E st \in ParseTrie_init : st.name = path
    THEN Some((CHOOSE st \in ParseTrie_init : st.name = path).parser)
    ELSE Nothing

\* the key a word is looked up under: the word read, or "" for none
trie_key(w) ==
    IF w = Nothing THEN ""
    ELSE IF Len(Unwrap(w)) = 1 THEN Unwrap(w)[1]
    ELSE "<word>"

RECURSIVE ParseTrie_lookup(_, _)
\* ParseTrie::parse up to the call of the grammar: the cursor the grammar is called
\* with, the grammar, the node reached and whether the node had a grammar of its own
ParseTrie_lookup(lex, path) ==
    Bind(word(lex), LAMBDA w :
    Bind(IF IsSome(w.rv) THEN w ELSE rmatch(w.lex, "$"), LAMBDA m :
        IF trie_key(m.rv) \notin trie_words(path)
        THEN [lex |-> [m.lex EXCEPT !.pos = lex.pos],
              parser |-> IF IsSome(trie_default(path)) THEN Unwrap(trie_default(path))
                         ELSE "Say",
              path |-> path,
              registered |-> IsSome(trie_default(path))]
        ELSE ParseTrie_lookup(m.lex, Append(path, trie_key(m.rv)))))

\* Lexer::new: init_offset, which nothing sets afterwards
init_offset == 0

\* p.parse() of the text lex.integer() gave
isize_parse(t) ==
    LET digits == Last(t)
        value == CASE digits = "0" -> 0 [] digits = "1" -> 1 [] digits = "2" -> 2
                   [] digits = "5" -> 5 [] digits = "100" -> 100 [] digits = "200" -> 200
    IN IF t[1] = "-" THEN 0 - value ELSE value

\* let priority = match lex.integer() { Some(p) => p.parse()?, None => 0 }
priority_of(lex) ==
    Bind(integer(lex), LAMBDA p :
        [lex |-> p.lex, rv |-> IF IsSome(p.rv) THEN isize_parse(Unwrap(p.rv)) ELSE 0])

InitNode(loc, block, priority) ==
    [type |-> "Init", loc |-> loc, block |-> block, priority |-> priority + init_offset]

RECURSIVE dotted_store(_, _, _)
\* while lex.rmatch(r"\.").is_some() { store = format!("{store}.{name}"); name = ... }
dotted_store(lex, store, n) ==
    Bind(rmatch(lex, "."), LAMBDA d :
        IF d.lex.panic # "" \/ d.rv = Nothing THEN [lex |-> d.lex, store |-> store, name |-> n]
        ELSE Bind(unwrapped(word(d.lex), "unwrap"), LAMBDA w :
                dotted_store(w.lex, store \o <<".">> \o n,
                             IF IsSome(w.rv) THEN Unwrap(w.rv) ELSE <<>>)))

\* Define::parse and Default_::parse: the store and the name
store_and_name(lex) ==
    Bind(unwrapped(word(lex), "unwrap"), LAMBDA w :
        dotted_store(w.lex, <<"store">>, IF IsSome(w.rv) THEN Unwrap(w.rv) ELSE <<>>))

\* the node wrapped whether or not the cursor is in an init context
wrap_always(lex, loc, priority, node) == <<InitNode(loc, <<node>>, priority)>>

\* Define::parse and Default_::parse: the node, wrapped in an Init outside an init context
wrap_init(lex, loc, priority, node) ==
    IF ~lex.init THEN <<InitNode(loc, <<node>>, priority)>> ELSE <<node>>

\* Default_::parse
Default_parse(lex, loc) ==
    Bind(priority_of(lex), LAMBDA p :
    Bind(store_and_name(p.lex), LAMBDA sn :
    Bind(rest(unwrapped(rmatch(sn.lex, "="), "unwrap").lex), LAMBDA expr :
    Bind(expect_noblock(IF expr.rv = Nothing THEN Panic(expr.lex, "expected expression")
                        ELSE expr.lex), LAMBDA l :
        [lex |-> advance(l),
         rv |-> wrap_init(l, loc, p.rv,
                          [type |-> "Default", loc |-> loc, store |-> sn.store,
                           name |-> sn.name, expr |-> expr.rv])]))))

\* Define::parse: the index in brackets, if there is one
define_index(lex) ==
    Bind(rmatch(lex, "["), LAMBDA b :
        IF b.rv = Nothing THEN [lex |-> b.lex, rv |-> Nothing]
        ELSE Bind(delimited_python(b.lex, {"]"}), LAMBDA i :
                [lex |-> unwrapped(rmatch(i.lex, "]"), "unwrap").lex, rv |-> i.rv]))

\* Define::parse: the operator
define_operator(lex) ==
    Bind(rmatch_literal(lex, <<"+", "=">>), LAMBDA plus :
        IF IsSome(plus.rv) THEN [lex |-> plus.lex, rv |-> "+="] ELSE
    Bind(rmatch_literal(plus.lex, <<"|", "=">>), LAMBDA bar :
        IF IsSome(bar.rv) THEN [lex |-> bar.lex, rv |-> "|="]
        ELSE [lex |-> unwrapped(rmatch(bar.lex, "="), "unwrap").lex, rv |-> "="]))

\* Define::parse
Define_parse(lex, loc) ==
    Bind(priority_of(lex), LAMBDA p :
    Bind(store_and_name(p.lex), LAMBDA sn :
    Bind(define_index(sn.lex), LAMBDA index :
    Bind(define_operator(index.lex), LAMBDA operator :
    Bind(rest(operator.lex), LAMBDA expr :
    Bind(expect_noblock(IF expr.rv = Nothing THEN Panic(expr.lex, "expected expression")
                        ELSE expr.lex), LAMBDA l :
        [lex |-> advance(l),
         rv |-> wrap_init(l, loc, p.rv,
                          [type |-> "Define", loc |-> loc, store |-> sn.store,
                           name |-> sn.name, index |-> index.rv, operator |-> operator.rv,
                           expr |-> expr.rv])]))))))

\* Pass::parse
Pass_parse(lex, loc) ==
    [lex |-> advance(expect_eol(expect_noblock(lex))), rv |-> <<[type |-> "Pass", loc |-> loc]>>]

\* parse_cmd.parse(lex, loc) for the statements that take one line; those that parse a
\* nested block are steps of the block machine below
\* PythonOneLine::parse
PythonOneLine_parse(lex, loc) ==
    Bind(rest_statement(lex), LAMBDA python_code :
        IF python_code.rv = Nothing
        THEN [lex |-> Panic(python_code.lex, "expected python code"), rv |-> <<>>]
        ELSE [lex |-> advance(expect_noblock(python_code.lex)),
              rv |-> <<[type |-> "PythonOneLine", loc |-> loc,
                        python_code |-> Trim(Unwrap(python_code.rv))]>>])

\* Jump::parse
Jump_parse(lex, loc) ==
    Bind(keyword(expect_noblock(lex), <<"expression">>), LAMBDA k :
    Bind(unwrapped(IF IsSome(k.rv) THEN simple_expression(k.lex, FALSE, TRUE)
                   ELSE label_name(k.lex, FALSE), "unwrap"), LAMBDA target :
        [lex |-> advance(expect_eol(target.lex)),
         rv |-> <<[type |-> "Jump", loc |-> loc, target |-> target.rv,
                   expression |-> IsSome(k.rv),
                   global_label |-> IF IsSome(k.rv) THEN target.lex.global_label
                                    ELSE Nothing]>>]))

\* Return::parse
Return_parse(lex, loc) ==
    Bind(rest(expect_noblock(lex)), LAMBDA r :
        [lex |-> advance(expect_eol(r.lex)),
         rv |-> <<[type |-> "Return", loc |-> loc, expression |-> r.rv]>>])

Parser_parse(parser, lex, loc) ==
    CASE parser = "Say" -> Say_parse(lex, loc)
      [] parser = "PythonOneLine" -> PythonOneLine_parse(lex, loc)
      [] parser = "Jump" -> Jump_parse(lex, loc)
      [] parser = "Return" -> Return_parse(lex, loc)
      [] parser = "UserStatement" -> UserStatement_parse(lex, loc)
      [] parser = "Pass" -> Pass_parse(lex, loc)
      [] parser = "Define" -> Define_parse(lex, loc)
      [] parser = "Default_" -> Default_parse(lex, loc)
      [] OTHER -> [lex |-> Unmodelled(lex, parser), rv |-> <<>>]

\* ParseTrie::parse, with where the grammar was called from
ParseTrie_parse(lex) ==
    Bind(ParseTrie_lookup(lex, <<>>), LAMBDA d :
    Bind(Parser_parse(d.parser, d.lex, get_location(lex)), LAMBDA r :
        [lex |-> r.lex, rv |-> r.rv, parser |-> d.parser, path |-> d.path,
         registered |-> d.registered, from |-> d.lex.pos]))

\* ------------------------------------------------ a line under ParseTrie::parse

\* the lines given: a first word, then nothing or a second word, then nothing or a text
TrieFirstWords == {"nvl", "window", "e", "play", "stop", "pause", "queue", "show"}
TrieSecondWords == {"clear", "show", "music", "a", "screen"}
TrieLines ==
    {<<w1>> \o w2 \o tail :
        w1 \in TrieFirstWords,
        w2 \in {<<>>} \cup {<<" ", w>> : w \in TrieSecondWords},
        tail \in {<<>>, <<" ", "\"", "hi", "\"">>}}

TrieInit ==
    /\ trieLine \in TrieLines
    /\ dispatched = Nothing

TrieIdle ==
    /\ trieLine = <<>>
    /\ dispatched = Nothing

\* parse_statement on the one line: lex.advance() was made by parse_block
ParseStatement ==
    /\ dispatched = Nothing
    /\ trieLine # <<>>
    /\ dispatched' = Some(ParseTrie_parse(advance(NewLexer(<<Blk(1, trieLine, <<>>)>>))))
    /\ UNCHANGED <<trieLine, notTrieVars>>

\* ------------------------------- parser.rs: parse_block, Label::parse, Menu::parse

\* Lexer::set_global_label
set_global_label(lex, label) ==
    IF lex.panic # "" THEN lex ELSE [lex EXCEPT !.global_label = label]

\* a call of parse_block: its cursor, its result so far and the statement that made it
BlockFrame(lex, caller) == [kind |-> "block", lex |-> lex, nodes |-> <<>>, caller |-> caller]

\* a call of parse_menu: its cursor l, its locals and the Menu statement that made it
MenuFrame(lex, caller) ==
    [kind |-> "menu", lex |-> lex, caller |-> caller, has_choice |-> FALSE,
     say_ast |-> Nothing, has_caption |-> FALSE, with_ |-> Nothing, set |-> Nothing,
     items |-> <<>>, item_arguments |-> <<>>, choice |-> Nothing]

LabelNode(loc, n, block, parameters, hide) ==
    [type |-> "Label", loc |-> loc, name |-> n, block |-> block, parameters |-> parameters,
     hide |-> hide]

\* Label::parse up to its call of parse_block
Label_head(lex, loc) ==
    Bind(unwrapped(label_name_declare(lex), "unwrap"), LAMBDA n :
    Bind(parse_parameters(set_global_label(n.lex, n.rv)), LAMBDA p :
    Bind(keyword(p.lex, <<"hide">>), LAMBDA h :
        [lex |-> expect_eol(rmatch(h.lex, ":").lex),
         caller |-> [stmt |-> "Label", loc |-> loc, name |-> n.rv, parameters |-> p.rv,
                     hide |-> IsSome(h.rv)]])))

\* Menu::parse up to its call of parse_menu
Menu_head(lex, loc) ==
    Bind(label_name_declare(expect_block(lex)), LAMBDA label :
    Bind(parse_arguments(set_global_label(label.lex, label.rv)), LAMBDA a :
        [lex |-> expect_eol(unwrapped(rmatch(a.lex, ":"), "unwrap").lex),
         caller |-> [stmt |-> "Menu", loc |-> loc, label |-> label.rv, arguments |-> a.rv]]))

\* Init::parse up to its block: the priority, and whether a colon follows
Init_head(lex, loc) ==
    Bind(priority_of(lex), LAMBDA p :
    Bind(rmatch(p.lex, ":"), LAMBDA c :
        [lex |-> IF IsSome(c.rv) THEN expect_block(expect_eol(c.lex)) ELSE c.lex,
         colon |-> IsSome(c.rv),
         caller |-> [stmt |-> "Init", loc |-> loc, priority |-> p.rv]]))

\* Init::parse without a colon: parse_statement on the same cursor with init set, for
\* the statements that take one line
Init_statement(lex, h) ==
    Bind(ParseTrie_lookup([lex EXCEPT !.init = TRUE], <<>>), LAMBDA d :
    Bind(IF d.parser \in {"Label", "Menu", "Init"}
         THEN [lex |-> Unmodelled(d.lex, "init " \o d.parser), rv |-> <<>>]
         ELSE Parser_parse(d.parser, d.lex, get_location(lex)), LAMBDA block :
        [lex |-> IF block.lex.panic # "" THEN block.lex ELSE [block.lex EXCEPT !.init = lex.init],
         rv |-> <<InitNode(h.caller.loc, block.rv, h.caller.priority)>>]))

\* parse_menu: a with line or a set line
pm_clause(s, k, e) ==
    [s EXCEPT !.lex = expect_noblock(expect_eol(unwrapped(e, "unwrap").lex)),
              !.with_ = IF k = "with" THEN e.rv ELSE @,
              !.set = IF k = "set" THEN e.rv ELSE @]

\* parse_menu: a say menuitem
pm_say(s, who, at, ta, w) ==
    IF s.has_caption
    THEN [s EXCEPT !.lex = Panic(w.lex, "Say menuitems and captions may not exist in the same menu.")]
    ELSE IF IsSome(s.say_ast)
    THEN [s EXCEPT !.lex = Panic(w.lex, "Only one say menuitem may exist per menu.")]
    ELSE Bind(finish_say(w.lex, s.caller.loc, who.rv, w.rv, at.rv, ta.rv, FALSE), LAMBDA f :
            [s EXCEPT !.lex = expect_noblock(expect_eol(f.lex)), !.say_ast = f.rv])

\* parse_menu: a caption, or a choice up to its call of parse_block
pm_item(s, l) ==
    Bind(string(l), LAMBDA label :
        IF label.rv = Nothing THEN [s EXCEPT !.lex = Panic(label.lex, "expected menuitem")] ELSE
    Bind(eol(label.lex), LAMBDA e :
        IF e.rv
        THEN IF Len(e.lex.subblock) > 0
             THEN [s EXCEPT !.lex = Panic(e.lex, "Line is followed by a block, despite not being a menu choice.")]
             ELSE IF IsSome(s.say_ast)
             THEN [s EXCEPT !.lex = Panic(e.lex, "Captions and say menuitems may not exist in the same menu.")]
             ELSE [s EXCEPT !.lex = e.lex, !.has_caption = TRUE,
                            !.items = Append(@, [label |-> label.rv, condition |-> Nothing,
                                                 block |-> Nothing]),
                            !.item_arguments = Append(@, Nothing)]
        ELSE
    Bind(parse_arguments(e.lex), LAMBDA a :
    Bind(keyword(a.lex, <<"if">>), LAMBDA k :
    Bind(IF IsSome(k.rv) THEN unwrapped(python_expression(k.lex), "unwrap")
         ELSE [lex |-> k.lex, rv |-> Nothing], LAMBDA c :
        [s EXCEPT !.lex = expect_block(expect_eol(unwrapped(rmatch(c.lex, ":"), "unwrap").lex)),
                  !.has_choice = TRUE,
                  !.item_arguments = Append(@, a.rv),
                  !.choice = Some([label |-> label.rv, condition |-> c.rv])])))))

\* parse_menu: the body of the while loop, up to the call of parse_block if there is one
pm_line(s) ==
    Bind(keyword(s.lex, <<"with">>), LAMBDA kw :
    Bind(IF IsSome(kw.rv) THEN kw ELSE keyword(kw.lex, <<"set">>), LAMBDA k :
    Bind(simple_expression(k.lex, FALSE, TRUE), LAMBDA e :
        IF IsSome(k.rv) THEN pm_clause(s, Unwrap(k.rv)[1], e) ELSE
    Bind(say_attributes(e.lex), LAMBDA at :
    Bind(rmatch(at.lex, "@"), LAMBDA m :
    Bind(IF IsSome(m.rv) THEN say_attributes(m.lex) ELSE [lex |-> m.lex, rv |-> Nothing],
         LAMBDA ta :
    Bind(say_what(ta.lex), LAMBDA w :
        IF IsSome(e.rv) /\ Len(w.rv) > 0 THEN pm_say(s, e, at, ta, w)
        ELSE pm_item(s, revert(w.lex, checkpoint(s.lex))))))))))

\* parse_menu after its loop: the nodes it returns
pm_nodes(s) ==
    (IF IsSome(s.say_ast) THEN <<Unwrap(s.say_ast)[1]>> ELSE <<>>)
    \o <<[type |-> "Menu", loc |-> s.caller.loc, items |-> s.items, set |-> s.set,
          with_ |-> s.with_, has_caption |-> IsSome(s.say_ast) \/ s.has_caption,
          arguments |-> s.caller.arguments, item_arguments |-> s.item_arguments]>>

\* Menu::parse after parse_menu: the label it declared, then the nodes of parse_menu
Menu_nodes(s) ==
    (IF IsSome(s.caller.label)
     THEN <<LabelNode(s.caller.loc, s.caller.label, <<>>, Nothing, FALSE)>>
     ELSE <<>>) \o pm_nodes(s)

\* ---------------------------------------------- a nested block under parse_block

\* the lines of a menu's body
MaxMenuLines == 3

\* a line as written, with the lines nested under it
Shape(text, sub) == [text |-> text, sub |-> sub]

RECURSIVE Numbered(_, _, _)
\* the lines of shapes as group_logical_lines gives them: line i of a block under
\* line n has the number n + i * scale
Numbered(shapes, n, scale) ==
    [i \in 1..Len(shapes) |->
        Blk(n + i * scale, shapes[i].text, Numbered(shapes[i].sub, n + i * scale, scale \div 10))]

PassBlock == <<Shape(<<"pass">>, <<>>)>>
LabelB == Shape(<<"label", " ", "b", ":">>, PassBlock)
Choice(t, sub) == Shape(<<"\"", t, "\"", ":">>, sub)
MenuLines ==
    {Shape(<<"\"", "Q", "\"">>, <<>>), Choice("A", PassBlock), Choice("B", PassBlock),
     Choice("C", <<LabelB>>), Shape(<<"with", " ", "d">>, <<>>),
     Shape(<<"set", " ", "s">>, <<>>), Shape(<<"e", " ", "\"", "hi", "\"">>, <<>>)}
MenuStatements ==
    {Shape(head, body) :
        head \in {<<"menu", ":">>, <<"menu", " ", "m", ":">>},
        body \in SeqsUpTo(MenuLines, MaxMenuLines) \ {<<>>}}
Preludes ==
    {<<>>, <<Shape(<<"label", " ", "a", ":">>, PassBlock)>>,
     <<Shape(<<"label", " ", "a", ":">>, <<LabelB>>)>>}
\* define and default lines: the keyword, a priority or none, the dotted name, a value
DefineLines ==
    {<<kw, " ">> \o prio \o path \o <<" ", "=", " ">> \o value :
        kw \in {"define", "default"},
        prio \in {<<>>, <<"5", " ">>},
        path \in {<<"x">>, <<"config", ".", "name">>, <<"a", ".", "b", ".", "c">>},
        value \in {<<"1">>, <<"\"", "x", "\"">>}}
\* a define or default line as it stands, after init on its line, and in the block of
\* an init or of a label
InitStatements ==
    UNION {{Shape(d, <<>>), Shape(<<"init", " ">> \o d, <<>>),
            Shape(<<"init", " ", "2", " ">> \o d, <<>>),
            Shape(<<"init", ":">>, <<Shape(d, <<>>)>>),
            Shape(<<"init", " ", "2", ":">>, <<Shape(d, <<>>), Shape(<<"pass">>, <<>>)>>),
            Shape(<<"label", " ", "a", ":">>, <<Shape(d, <<>>)>>),
            Shape(<<"label", " ", "a", ":">>, <<Shape(<<"init", " ">> \o d, <<>>)>>)} :
           d \in DefineLines}
Scripts ==
    {Numbered(p \o <<m>>, 0, 100) : p \in Preludes, m \in MenuStatements}
    \cup {Numbered(<<i>> \o t, 0, 100) : i \in InitStatements, t \in {<<>>, PassBlock}}

BlkInit ==
    /\ script \in Scripts
    /\ frames = <<>>
    /\ outcome = Nothing
    /\ failure = ""

BlkIdle ==
    /\ script = <<>>
    /\ frames = <<>>
    /\ outcome = Nothing
    /\ failure = ""

\* the innermost call and the calls around it
Top == frames[Len(frames)]
Below == SubSeq(frames, 1, Len(frames) - 1)

\* a call is running and no panic has ended the parse
Running == failure = "" /\ frames # <<>>

\* the next state: the calls fs, or the panic of lex, which unwinds every call
Go(lex, fs) ==
    /\ failure' = lex.panic
    /\ frames' = IF lex.panic # "" THEN <<>> ELSE fs
    /\ UNCHANGED <<script, outcome, notBlkVars>>

\* parse_block is called on the block given: lex.advance()
ParseBlockEnter ==
    /\ failure = "" /\ frames = <<>> /\ outcome = Nothing /\ script # <<>>
    /\ Go(NewLexer(script), <<BlockFrame(advance(NewLexer(script)), [stmt |-> "main"])>>)

\* the grammar the trie gives for the line the innermost parse_block stands on
Dispatch == ParseTrie_lookup(Top.lex, <<>>)

\* parse_block: a statement of one line
ParseLine ==
    /\ Running /\ Top.kind = "block" /\ ~Top.lex.eob
    /\ Dispatch.parser \notin {"Label", "Menu", "Init"}
    /\ Bind(Parser_parse(Dispatch.parser, Dispatch.lex, get_location(Top.lex)), LAMBDA r :
          Go(r.lex, Append(Below, [Top EXCEPT !.lex = r.lex, !.nodes = @ \o r.rv])))

\* parse_block: a label statement, up to its call of parse_block on the nested block
ParseLabel ==
    /\ Running /\ Top.kind = "block" /\ ~Top.lex.eob
    /\ Dispatch.parser = "Label"
    /\ Bind(Label_head(Dispatch.lex, get_location(Top.lex)), LAMBDA h :
          Go(h.lex, Below \o <<[Top EXCEPT !.lex = h.lex],
                              BlockFrame(advance(subblock_lexer(h.lex, FALSE)), h.caller)>>))

\* parse_block: an init statement: with a colon up to its call of parse_block on the
\* nested block, without one the whole of it
ParseInit ==
    /\ Running /\ Top.kind = "block" /\ ~Top.lex.eob
    /\ Dispatch.parser = "Init"
    /\ Bind(Init_head(Dispatch.lex, get_location(Top.lex)), LAMBDA h :
          IF h.colon
          THEN Go(h.lex, Below \o <<[Top EXCEPT !.lex = h.lex],
                                   BlockFrame(advance(subblock_lexer(h.lex, TRUE)), h.caller)>>)
          ELSE Bind(Init_statement(h.lex, h), LAMBDA r :
                  Go(r.lex, Append(Below, [Top EXCEPT !.lex = r.lex, !.nodes = @ \o r.rv]))))

\* parse_block: a menu statement, up to the loop of parse_menu
ParseMenu ==
    /\ Running /\ Top.kind = "block" /\ ~Top.lex.eob
    /\ Dispatch.parser = "Menu"
    /\ Bind(Menu_head(Dispatch.lex, get_location(Top.lex)), LAMBDA h :
          Go(h.lex, Below \o <<[Top EXCEPT !.lex = h.lex],
                              MenuFrame(subblock_lexer(h.lex, FALSE), h.caller)>>))

\* parse_menu: l.advance() gave a line; a choice calls parse_block on its block
MenuLine ==
    /\ Running /\ Top.kind = "menu" /\ ~advance(Top.lex).eob
    /\ Bind(pm_line([Top EXCEPT !.lex = advance(Top.lex)]), LAMBDA s :
          Go(s.lex, IF IsSome(s.choice)
                    THEN Below \o <<s, BlockFrame(advance(subblock_lexer(s.lex, FALSE)),
                                                  [stmt |-> "choice"])>>
                    ELSE Append(Below, s)))

\* parse_menu returning without asking for a choice
MenuReturnUnchecked ==
    /\ Running /\ Top.kind = "menu" /\ advance(Top.lex).eob
    /\ Bind(Last(Below), LAMBDA parent :
          Go(parent.lex,
             Append(SubSeq(Below, 1, Len(Below) - 1),
                    [parent EXCEPT !.lex = advance(@), !.nodes = @ \o Menu_nodes(Top)])))

\* parse_menu: l.advance() gave no line; parse_menu returns and Menu::parse ends
MenuReturn ==
    /\ Running /\ Top.kind = "menu" /\ advance(Top.lex).eob
    /\ Bind(Last(Below), LAMBDA parent :
          Go(IF Top.has_choice THEN parent.lex
             ELSE Panic(parent.lex, "Menu does not contain any choices."),
             Append(SubSeq(Below, 1, Len(Below) - 1),
                    [parent EXCEPT !.lex = advance(@), !.nodes = @ \o Menu_nodes(Top)])))

\* parse_block returns to the label, to the init or to the choice that called it
BlockReturn ==
    /\ Running /\ Top.kind = "block" /\ Top.lex.eob /\ Top.caller.stmt # "main"
    /\ Bind(Last(Below), LAMBDA parent :
          Go(parent.lex,
             Append(SubSeq(Below, 1, Len(Below) - 1),
                    IF Top.caller.stmt = "Label"
                    THEN [parent EXCEPT !.lex = advance(@),
                                        !.nodes = @ \o <<LabelNode(Top.caller.loc, Top.caller.name,
                                                                   Top.nodes, Top.caller.parameters,
                                                                   Top.caller.hide)>>]
                    ELSE IF Top.caller.stmt = "Init"
                    THEN [parent EXCEPT !.lex = advance(@),
                                        !.nodes = @ \o <<InitNode(Top.caller.loc, Top.nodes,
                                                                  Top.caller.priority)>>]
                    ELSE [parent EXCEPT !.items = Append(@, [label |-> Unwrap(parent.choice).label,
                                                             condition |-> Unwrap(parent.choice).condition,
                                                             block |-> Some(Top.nodes)]),
                                        !.choice = Nothing])))

\* the outermost parse_block returns
ParseBlockReturn ==
    /\ Running /\ Top.kind = "block" /\ Top.lex.eob /\ Top.caller.stmt = "main"
    /\ outcome' = Some(Top.nodes)
    /\ frames' = <<>>
    /\ UNCHANGED <<script, failure, notBlkVars>>

BlkNext ==
    \/ ParseBlockEnter \/ ParseLine \/ ParseLabel \/ ParseInit \/ ParseMenu \/ MenuLine
    \/ MenuReturn \/ BlockReturn \/ ParseBlockReturn

\* ---------------------------------- a custom statement under UserStatement::parse

\* the blocks that may stand under the line, and the lines that may stand after it
UserBlocks == {<<>>, <<Shape(<<"a">>, <<>>)>>, <<Shape(<<"a">>, <<>>), Shape(<<"pass">>, <<>>)>>}
UserSiblings == {<<>>, <<Shape(<<"pass">>, <<>>)>>}
UserTails == {<<>>, <<" ", "a">>}
\* the first words of a custom statement, a space between two
UserHeads == {join([i \in 1..Len(c) |-> <<c[i]>>], <<" ">>) : c \in custom_statements}

UserInit ==
    /\ userScript \in {Numbered(<<Shape(h \o t, b)>> \o n, 0, 100) :
                          h \in UserHeads, t \in UserTails, b \in UserBlocks, n \in UserSiblings}
    /\ userParsed = Nothing

UserIdle ==
    /\ userScript = <<>>
    /\ userParsed = Nothing

\* parse_statement on the line, which the trie gives to UserStatement::parse
ParseUserStatement ==
    /\ userParsed = Nothing
    /\ userScript # <<>>
    /\ userParsed' = Some(ParseTrie_parse(advance(NewLexer(userScript))))
    /\ UNCHANGED <<userScript, notUserVars>>

\* ------------------------------------- a file under main's pipeline (main.rs)

FileInit ==
    /\ fileGrouped = Nothing

FileIdle ==
    /\ fileGrouped = Nothing

\* main: group_logical_lines(lines).unwrap(), Lexer::new(nested) and parse_block up
\* to its loop, once list_logical_lines has returned Ok
FileGroupAs(g) ==
    /\ fileGrouped' = Some(g)
    /\ script' = g.blocks
    /\ frames' = IF g.ok THEN <<BlockFrame(advance(NewLexer(g.blocks)), [stmt |-> "main"])>>
                 ELSE <<>>
    /\ failure' = IF g.ok THEN "" ELSE "unwrap"
    /\ UNCHANGED <<outcome, notBlkFileVars>>

FileGroup ==
    /\ lll = "ok" /\ data # <<>>
    /\ fileGrouped = Nothing
    /\ FileGroupAs(group_logical_lines(result))

FileNext == LllNext \/ FileGroup \/ ParseLine \/ ParseBlockReturn

\* ------------------------------------ parser.rs: Show::parse and Scene::parse

RECURSIVE image_name_loop(_, _)
\* parse_image_name: the loop over the components after the first
image_name_loop(lex, rv) ==
    Bind(image_name_component(lex), LAMBDA n :
        IF n.rv = Nothing THEN [lex |-> n.lex, rv |-> rv]
        ELSE image_name_loop(n.lex, Append(rv, Trim(Unwrap(n.rv)))))

\* parse_image_name
parse_image_name(lex, with_string, nodash) ==
    Bind(unwrapped(image_name_component(lex), "unwrap"), LAMBDA first :
    Bind(image_name_loop(first.lex, IF IsSome(first.rv) THEN <<Unwrap(first.rv)>> ELSE <<>>),
         LAMBDA names :
    Bind(IF with_string THEN simple_expression(names.lex, FALSE, TRUE)
         ELSE [lex |-> names.lex, rv |-> Nothing], LAMBDA e :
    Bind(names.rv \o (IF IsSome(e.rv) THEN <<Unwrap(e.rv)>> ELSE <<>>), LAMBDA rv :
        IF nodash /\ \E i \in 1..Len(rv) : Len(rv[i]) > 0 /\ rv[i][1] = "-"
        THEN [lex |-> Panic(e.lex, "image name components may not begin with a '-'."),
              rv |-> Nothing]
        ELSE [lex |-> e.lex, rv |-> Some(rv)]))))

RECURSIVE simple_expression_list_loop(_, _)
\* parse_simple_expression_list: the loop over the expressions after the first
simple_expression_list_loop(lex, rv) ==
    Bind(rmatch(lex, ","), LAMBDA c :
        IF c.rv = Nothing THEN [lex |-> c.lex, rv |-> rv]
        ELSE Bind(simple_expression(c.lex, FALSE, TRUE), LAMBDA e :
                IF e.rv = Nothing THEN [lex |-> e.lex, rv |-> rv]
                ELSE simple_expression_list_loop(e.lex, Append(rv, Unwrap(e.rv)))))

RECURSIVE behind_loop(_, _)
\* parse_image_specifier: the names of a behind clause
behind_loop(lex, behind) ==
    Bind(unwrapped(name(lex), "unwrap"), LAMBDA bhtag :
        IF bhtag.rv = Nothing THEN [lex |-> bhtag.lex, rv |-> behind]
        ELSE Bind(rmatch(bhtag.lex, ","), LAMBDA c :
                IF c.rv = Nothing THEN [lex |-> c.lex, rv |-> Append(behind, Unwrap(bhtag.rv))]
                ELSE behind_loop(c.lex, Append(behind, Unwrap(bhtag.rv)))))

\* parse_image_specifier: the clause that the keyword k begins; e is the simple
\* expression and n the name that follow the keyword
imspec_clause(s, k, e, n) ==
    CASE k = "onlayer" ->
            IF IsSome(s.layer)
            THEN [s EXCEPT !.lex = Panic(@, "multiple onlayer clauses are prohibited.")]
            ELSE [s EXCEPT !.lex = n.lex, !.layer = n.rv]
      [] k = "at" ->
            IF Len(s.at_list) > 0
            THEN [s EXCEPT !.lex = Panic(@, "multiple at clauses are prohibited.")]
            ELSE Bind(unwrapped(e, "unwrap"), LAMBDA first :
                 Bind(simple_expression_list_loop(first.lex,
                          IF IsSome(first.rv) THEN <<Unwrap(first.rv)>> ELSE <<>>), LAMBDA l :
                    [s EXCEPT !.lex = l.lex, !.at_list = l.rv]))
      [] k = "as" ->
            IF IsSome(s.tag)
            THEN [s EXCEPT !.lex = Panic(@, "multiple as clauses are prohibited.")]
            ELSE [s EXCEPT !.lex = n.lex, !.tag = n.rv]
      [] k = "zorder" ->
            IF IsSome(s.zorder)
            THEN [s EXCEPT !.lex = Panic(@, "multiple zorder clauses are prohibited.")]
            ELSE [s EXCEPT !.lex = e.lex, !.zorder = e.rv]
      [] k = "behind" ->
            IF Len(s.behind) > 0
            THEN [s EXCEPT !.lex = Panic(@, "multiple behind clauses are prohibited.")]
            ELSE Bind(behind_loop(s.lex, <<>>), LAMBDA b :
                    [s EXCEPT !.lex = b.lex, !.behind = b.rv])

RECURSIVE clause_keyword(_, _)
\* the first of the keywords ks that the cursor stands on, if any
clause_keyword(lex, ks) ==
    IF Len(ks) = 0 THEN [lex |-> lex, rv |-> Nothing]
    ELSE Bind(keyword(lex, <<ks[1]>>), LAMBDA k :
            IF IsSome(k.rv) THEN [lex |-> k.lex, rv |-> Some(ks[1])]
            ELSE clause_keyword(k.lex, Tail(ks)))

RECURSIVE imspec_loop(_)
\* parse_image_specifier: the loop over the clauses
imspec_loop(s) ==
    IF s.lex.panic # "" THEN s
    ELSE Bind(clause_keyword(s.lex, <<"onlayer", "at", "as", "zorder", "behind">>), LAMBDA k :
            IF k.rv = Nothing THEN [s EXCEPT !.lex = k.lex]
            ELSE imspec_loop(imspec_clause([s EXCEPT !.lex = k.lex], Unwrap(k.rv),
                                           simple_expression(k.lex, FALSE, TRUE),
                                           name(k.lex))))

\* parse_image_specifier
parse_image_specifier(lex) ==
    Bind(clause_keyword(lex, <<"expression", "image">>), LAMBDA k :
    Bind(IF IsSome(k.rv) THEN simple_expression(k.lex, FALSE, TRUE)
         ELSE [lex |-> k.lex, rv |-> Nothing], LAMBDA expression :
    Bind(IF IsSome(k.rv)
         THEN [lex |-> unwrapped(expression, "unwrap").lex,
               rv |-> IF IsSome(expression.rv) THEN Some(<<Trim(Unwrap(expression.rv))>>)
                      ELSE Nothing]
         ELSE unwrapped(parse_image_name(k.lex, TRUE, FALSE), "unwrap"), LAMBDA image_name :
    Bind(imspec_loop([lex |-> image_name.lex, tag |-> Nothing, layer |-> Nothing,
                      at_list |-> <<>>, zorder |-> Nothing, behind |-> <<>>]), LAMBDA s :
        [lex |-> s.lex,
         rv |-> [image_name |-> IF IsSome(image_name.rv) THEN Unwrap(image_name.rv) ELSE <<>>,
                 expression |-> expression.rv, tag |-> s.tag,
                 at_list |-> s.at_list, layer |-> s.layer, zorder |-> s.zorder,
                 behind |-> s.behind]]))))

WithNode(loc, expr, paired) == [type |-> "With", loc |-> loc, expr |-> expr, paired |-> paired]

\* parse_with
parse_with(lex, node) ==
    Bind(keyword(lex, <<"with">>), LAMBDA k :
        IF k.rv = Nothing THEN [lex |-> k.lex, rv |-> <<node>>]
        ELSE Bind(simple_expression(k.lex, FALSE, TRUE), LAMBDA expr :
                [lex |-> unwrapped(expr, "unwrap").lex,
                 rv |-> <<WithNode(get_location(lex), Some(<<"None">>), expr.rv), node,
                          WithNode(get_location(lex), expr.rv, Nothing)>>]))

\* Show::parse
Show_parse(lex, loc) ==
    Bind(parse_image_specifier(lex), LAMBDA imspec :
    Bind(parse_with(imspec.lex, [type |-> "Show", loc |-> loc, imspec |-> Some(imspec.rv),
                                 atl |-> Nothing]), LAMBDA w :
        [lex |-> w.lex, rv |-> w.rv, type |-> "Show"]))

\* Scene::parse
Scene_parse(lex, loc) ==
    Bind(keyword(lex, <<"onlayer">>), LAMBDA k :
    Bind(IF IsSome(k.rv) THEN name(k.lex) ELSE [lex |-> k.lex, rv |-> Nothing], LAMBDA layer :
    Bind(eol(IF IsSome(k.rv) THEN expect_eol(layer.lex) ELSE layer.lex), LAMBDA e :
        IF IsSome(layer.rv) \/ e.rv
        THEN [lex |-> advance(e.lex),
              rv |-> <<[type |-> "Scene", loc |-> loc, imspec |-> Nothing, layer |-> layer.rv,
                        atl |-> Nothing]>>,
              type |-> ""]
        ELSE
    Bind(parse_image_specifier(e.lex), LAMBDA imspec :
    Bind(parse_with(imspec.lex, [type |-> "Scene", loc |-> loc, imspec |-> Some(imspec.rv),
                                 layer |-> imspec.rv.layer, atl |-> Nothing]), LAMBDA w :
        [lex |-> w.lex, rv |-> w.rv, type |-> "Scene"])))))

\* Show::parse or Scene::parse, whichever the trie gave, up to the colon and
\* expect_block or expect_noblock; given says that the block goes to parse_atl, which
\* it does when rv[0] is the node of the statement
show_head(d, loc) ==
    Bind(IF d.parser = "Show" THEN Show_parse(d.lex, loc) ELSE Scene_parse(d.lex, loc),
         LAMBDA r :
        IF r.type = "" \/ r.lex.panic # ""
        THEN [lex |-> r.lex, rv |-> r.rv, returned |-> TRUE, given |-> FALSE]
        ELSE Bind(rmatch(r.lex, ":"), LAMBDA c :
             Bind(IF IsSome(c.rv) THEN expect_block(c.lex) ELSE expect_noblock(c.lex),
                  LAMBDA l :
                [lex |-> l, rv |-> r.rv, returned |-> FALSE,
                 given |-> IsSome(c.rv) /\ r.rv[1].type = r.type /\ l.panic = ""])))

\* Show::parse and Scene::parse from expect_eol on
show_tail(lex, rv) == [lex |-> advance(expect_eol(lex)), rv |-> rv]

\* ------------------------------- a show or scene statement under its grammar

ShowClauses ==
    {<<>>, <<" ", "at", " ", "left">>, <<" ", "as", " ", "x">>, <<" ", "onlayer", " ", "m">>,
     <<" ", "zorder", " ", "1">>, <<" ", "behind", " ", "b">>}
ShowBlocks == {<<AtlXpos>>, <<AtlYpos, AtlLinear100>>, <<(<<"pass">>)>>}
\* show or scene, an image, a clause or none, with d or not, and a colon with a block
\* or neither
ShowLines ==
    {Shape(<<kw, " ">> \o image \o clause \o trans \o (IF sub = <<>> THEN <<>> ELSE <<":">>),
           [i \in 1..Len(sub) |-> Shape(sub[i], <<>>)]) :
        kw \in {"show", "scene"},
        image \in {<<"e">>, <<"e", " ", "happy">>},
        clause \in ShowClauses,
        trans \in {<<>>, <<" ", "with", " ", "d">>},
        sub \in {<<>>} \cup ShowBlocks}

ShowInit ==
    /\ showLine \in ShowLines
    /\ showAt = "new"
    /\ shown = Nothing

ShowIdle ==
    /\ showLine = <<>>
    /\ showAt = "new"
    /\ shown = Nothing

\* what the statement leaves alone whether or not it enters parse_atl
showRest ==
    <<showLine, atlBlock, atlVisited, atlLast, notAtlShowVars>>

\* Show::parse or Scene::parse after the head h of the statement: with a block that
\* goes to parse_atl, parse_atl is entered on the sub-block
ShowEnter(h) ==
    IF h.given
    THEN /\ showAt' = "atl"
         /\ shown' = Some([lex |-> h.lex, rv |-> h.rv])
         /\ atl' = Bind(advance(subblock_lexer(h.lex, FALSE)), LAMBDA l :
                     [atl EXCEPT !.lex = l, !.block_loc = get_location(l),
                                 !.rm = RawMultipurpose_new(get_location(l)),
                                 !.at = "loop"])
    ELSE /\ showAt' = "done"
         /\ shown' = Some(IF h.returned THEN [lex |-> h.lex, rv |-> h.rv]
                          ELSE show_tail(h.lex, h.rv))
         /\ atl' = atl

\* parse_statement on the one line, which the trie gives to Show::parse or Scene::parse
ShowStatement ==
    /\ showAt = "new"
    /\ showLine # <<>>
    /\ ShowEnter(Bind(advance(NewLexer(Numbered(<<showLine>>, 0, 10))), LAMBDA l :
                    show_head(ParseTrie_lookup(l, <<>>), get_location(l))))
    /\ UNCHANGED showRest

\* parse_atl has returned: node.atl is what it gave, then expect_eol and advance
ShowReturn ==
    /\ showAt = "atl"
    /\ atl.at \in {"done", "none", "panic"}
    /\ showAt' = "done"
    /\ shown' = Bind(Unwrap(shown), LAMBDA h :
                    Some(show_tail(Join(h.lex, atl.lex),
                                   [h.rv EXCEPT ![1].atl =
                                        IF atl.at = "done"
                                        THEN Some(RawBlock(atl.block_loc, atl.statements,
                                                           atl.animation))
                                        ELSE Nothing])))
    /\ UNCHANGED <<showLine, notShowVars>>

ShowNext ==
    \/ ShowStatement
    \/ AtlPass
    \/ AtlReturn
    \/ ShowReturn

\* ------------------------------------------------------- formatter.rs: format_ast

\* " ".repeat(indent)
indent_spaces(indent) == [i \in 1..indent |-> " "]

RECURSIVE replace(_, _, _)
\* str::replace of the one-character pattern by the text to
replace(t, pattern, to) ==
    IF Len(t) = 0 THEN <<>>
    ELSE (IF t[1] = pattern THEN to ELSE <<t[1]>>) \o replace(Tail(t), pattern, to)

\* encode_say_string
encode_say_string(t) ==
    <<"\"">> \o replace(replace(replace(t, "\\", <<"\\", "\\">>), "\n", <<"\\", "n">>),
                       "\"", <<"\\", "\"">>) \o <<"\"">>

\* what a node renders to: its lines, or the panic that ends the rendering
Rendered(ls) == [lines |-> ls, panic |-> ""]
RenderPanic(msg) == [lines |-> <<>>, panic |-> msg]

\* <Say as Format>::format
Say_format(node, indent) ==
    IF IsSome(node.arguments) THEN RenderPanic("unmodelled: say arguments")
    ELSE Rendered(<<indent_spaces(indent) \o join(
            (IF IsSome(node.who) THEN <<Unwrap(node.who)>> ELSE <<>>)
            \o (IF IsSome(node.attributes) THEN Unwrap(node.attributes) ELSE <<>>)
            \o (IF IsSome(node.temporary_attributes)
                THEN <<(<<"@">>)>> \o Unwrap(node.temporary_attributes) ELSE <<>>)
            \o <<encode_say_string(node.what)>>
            \o (IF ~node.interact THEN <<(<<"nointeract">>)>> ELSE <<>>)
            \o (IF IsSome(node.identifier)
                THEN <<(<<"id", " ">> \o Unwrap(node.identifier))>> ELSE <<>>)
            \o (IF IsSome(node.with) THEN <<(<<"with", " ">> \o Unwrap(node.with))>> ELSE <<>>),
            <<" ">>)>>)

\* <PythonOneLine as Format>::format
PythonOneLine_format(node, indent) ==
    Rendered(<<indent_spaces(indent) \o <<"$", " ">> \o node.python_code>>)

\* <Jump as Format>::format
Jump_format(node, indent) ==
    Rendered(<<indent_spaces(indent)
               \o (IF node.expression THEN <<"jump", " ", "expression", " ">>
                   ELSE <<"jump", " ">>)
               \o Unwrap(node.target)>>)

\* <Return as Format>::format
Return_format(node, indent) ==
    Rendered(<<indent_spaces(indent)
               \o (IF IsSome(node.expression)
                   THEN <<"return", " ", "expression", " ">> \o Unwrap(node.expression)
                   ELSE <<"return">>)>>)

RECURSIVE trim_start_matches(_, _)
\* str::trim_start_matches
trim_start_matches(t, prefix) ==
    IF Len(prefix) > 0 /\ Len(t) >= Len(prefix) /\ SubSeq(t, 1, Len(prefix)) = prefix
    THEN trim_start_matches(SubSeq(t, Len(prefix) + 1, Len(t)), prefix) ELSE t

\* <Define as Format>::format
Define_format(node, indent) ==
    Rendered(<<indent_spaces(indent) \o <<"define", " ">>
               \o (IF node.store = <<"store">> THEN <<>>
                   ELSE trim_start_matches(node.store, <<"store", ".">>) \o <<".">>)
               \o node.name
               \o (IF IsSome(node.index) THEN <<"[">> \o Unwrap(node.index) \o <<"]">>
                   ELSE <<>>)
               \o <<" ", "=", " ">> \o Unwrap(node.expr)>>)

\* format!("{}\n", ..) of the one string that a node's format gave
then_newline(r) ==
    IF r.panic # "" THEN r ELSE Rendered(<<join(r.lines, <<"\n">>) \o <<"\n">>>>)

RECURSIVE format_ast(_, _)
\* <Init as Format>::format: lines.join("\n"); an init with a block of several
\* statements is not followed
Init_format(node, indent) ==
    IF Len(node.block) > 1 THEN RenderPanic("unmodelled: init block")
    ELSE then_newline(format_ast(node.block, indent))

\* format_ast: the arm of the match for one node
format_node(node, indent) ==
    CASE node.type = "Say" -> then_newline(Say_format(node, indent))
      [] node.type = "UserStatement" -> Rendered(<<indent_spaces(indent) \o node.line>>)
      [] node.type = "PythonOneLine" -> PythonOneLine_format(node, indent)
      [] node.type = "Jump" -> then_newline(Jump_format(node, indent))
      [] node.type = "Return" -> then_newline(Return_format(node, indent))
      [] node.type = "Init" -> Init_format(node, indent)
      [] node.type = "Define" -> Define_format(node, indent)
      [] node.type = "Default" -> RenderPanic("not yet implemented: default")
      [] node.type = "Pass" -> RenderPanic("not yet implemented: pass")
      [] OTHER -> RenderPanic("unmodelled: " \o node.type)

\* format_ast
format_ast(ast, indent) ==
    IF Len(ast) = 0 THEN Rendered(<<>>)
    ELSE Bind(format_node(ast[1], indent), LAMBDA r :
            IF r.panic # "" THEN r
            ELSE Bind(format_ast(Tail(ast), indent), LAMBDA more :
                    IF more.panic # "" THEN more ELSE Rendered(r.lines \o more.lines)))

\* --------------------------- a script parsed, rendered and parsed again (main.rs)

RECURSIVE SplitLines(_, _)
\* the text cut at its newlines: acc is the line being gathered
SplitLines(t, acc) ==
    IF Len(t) = 0 THEN <<acc>>
    ELSE IF t[1] = "\n" THEN <<acc>> \o SplitLines(Tail(t), <<>>)
    ELSE SplitLines(Tail(t), Append(acc, t[1]))

\* the block that the lexing of main gives for the text printed, lines.join("\n"):
\* the text here has no indentation, no open bracket and no newline within a string,
\* so each line that is not blank is a statement of the top block
Relexed(ls) ==
    Numbered(SelectSeq([i \in 1..Len(SplitLines(join(ls, <<"\n">>), <<>>)) |->
                            Shape(SplitLines(join(ls, <<"\n">>), <<>>)[i], <<>>)],
                       LAMBDA sh : Trim(sh.text) # <<>>), 0, 100)

RoundLines ==
    {<<"return">>, <<"return", " ", "x">>, <<"jump", " ", "a">>,
     <<"jump", " ", "expression", " ", "x">>, <<"$", " ", "x", " ", "=", " ", "1">>,
     <<"pass">>, <<"pause">>, <<"e", " ", "\"", "hi", "\"">>, <<"\"", "hi", "\"">>,
     <<"define", " ", "x", " ", "=", " ", "1">>,
     <<"define", " ", "5", " ", "x", " ", "=", " ", "1">>,
     <<"define", " ", "a", ".", "x", " ", "=", " ", "1">>,
     <<"default", " ", "x", " ", "=", " ", "1">>}
\* one statement, or two
RoundScripts ==
    {Numbered(<<Shape(a, <<>>)>>, 0, 100) : a \in RoundLines}
    \cup {Numbered(<<Shape(a, <<>>), Shape(b, <<>>)>>, 0, 100) : a \in RoundLines, b \in RoundLines}

RoundInit ==
    /\ firstTree = Nothing
    /\ rendered = <<>>
    /\ renderPanic = ""

RoundIdle == RoundInit

\* main after parse_block: format_ast(&ast, 0) and println!; the text printed is then
\* given to the parser as the first text was
RoundRenderAs(r) ==
    /\ renderPanic' = r.panic
    /\ rendered' = r.lines
    /\ firstTree' = IF r.panic = "" THEN outcome ELSE firstTree
    /\ outcome' = IF r.panic = "" THEN Nothing ELSE outcome
    /\ script' = IF r.panic = "" THEN Relexed(r.lines) ELSE script

RoundRender ==
    /\ failure = "" /\ frames = <<>> /\ IsSome(outcome)
    /\ firstTree = Nothing /\ renderPanic = ""
    /\ RoundRenderAs(format_ast(Unwrap(outcome), 0))
    /\ UNCHANGED <<frames, failure, notBlkRoundVars>>

RoundNext ==
    \/ ParseBlockEnter
    \/ ParseLine
    \/ ParseBlockReturn
    \/ RoundRender

\* ------------------------------------------------------ main.rs: munge_filename

\* the characters of file names, and the code of each that is no letter, digit or
\* underscore, in lowercase hexadecimal
NameChars == {"a", "_", " ", "-", "*", "."}
HexCode == [c \in {" ", "-", "*", "."} |->
                CASE c = " " -> <<"2", "0">>
                  [] c = "-" -> <<"2", "d">>
                  [] c = "*" -> <<"2", "a">>
                  [] c = "." -> <<"2", "e">>]

\* the last component of the path: what stands after its last separator
file_name(path) ==
    LET seps == {i \in 1..Len(path) : path[i] = "/"}
    IN IF seps = {} THEN path
       ELSE SubSeq(path, 1 + (CHOOSE i \in seps : \A j \in seps : j <= i), Len(path))

\* the index of the dot that parts the stem from the extension, 0 when there is none:
\* the last dot of the file name, unless it is the first character
last_dot(fname) ==
    LET dots == {i \in 2..Len(fname) : fname[i] = "."}
    IN IF dots = {} THEN 0 ELSE CHOOSE i \in dots : \A j \in dots : j <= i

\* Path::file_stem
file_stem(path) ==
    LET fname == file_name(path)
    IN IF last_dot(fname) = 0 THEN fname ELSE SubSeq(fname, 1, last_dot(fname) - 1)

\* Path::extension
extension(path) ==
    LET fname == file_name(path)
    IN IF last_dot(fname) = 0 THEN Nothing
       ELSE Some(SubSeq(fname, last_dot(fname) + 1, Len(fname)))

\* str::ends_with
ends_with(t, suffix) ==
    Len(t) >= Len(suffix) /\ SubSeq(t, Len(t) - Len(suffix) + 1, Len(t)) = suffix

RECURSIVE escape_chars(_)
\* the map over the characters of the stem
escape_chars(t) ==
    IF Len(t) = 0 THEN <<>>
    ELSE (IF t[1] \in DOMAIN HexCode THEN <<"0", "x">> \o HexCode[t[1]] ELSE <<t[1]>>)
         \o escape_chars(Tail(t))

\* a munge_filename that keeps _ren whatever the extension
munge_filename_keep_ren(path) ==
    <<"_", "m", "1", "_">> \o escape_chars(replace(file_stem(path), " ", <<"_">>)) \o <<"_", "_">>

\* munge_filename
munge_filename(path) ==
    LET stem == IF ends_with(file_stem(path), <<"_", "r", "e", "n">>)
                   /\ extension(path) = Some(<<"p", "y">>)
                THEN SubSeq(file_stem(path), 1, Len(file_stem(path)) - 4)
                ELSE file_stem(path)
    IN <<"_", "m", "1", "_">> \o escape_chars(replace(stem, " ", <<"_">>)) \o <<"_", "_">>

\* ---------------------------------------------------- a path under munge_filename

MaxStem == 3
\* the stems: a few characters, with _ren after them or not
NameStems ==
    {t \o r : t \in SeqsUpTo(NameChars, MaxStem) \ {<<>>},
              r \in {<<>>, <<"_", "r", "e", "n">>}}
NameDirs == {<<>>, <<"g", "/">>, <<"a", " ", "b", "/", "c", ".", "d", "/">>}
NameExtensions == {<<"r", "p", "y">>, <<"p", "y">>}

\* the path as it is written
PathText(p) == p.dirs \o p.stem \o <<".">> \o p.ext

NameInit ==
    /\ mungePath \in [dirs : NameDirs, stem : NameStems, ext : NameExtensions]
    /\ munged = Nothing

NameIdle ==
    /\ mungePath = <<>>
    /\ munged = Nothing

\* munge_filename(&path)
MungeFilename ==
    /\ munged = Nothing
    /\ mungePath # <<>>
    /\ munged' = Some(munge_filename(PathText(mungePath)))
    /\ UNCHANGED <<mungePath, notNameVars>>

\* ------------------------------------------------------------ main.rs: main

\* the files of a run
MaxFiles == 3

\* the calls of one file's pipeline, in order; each is followed by .unwrap() or, for
\* format_ast, panics by itself
Pipeline == <<"list_logical_lines", "group_logical_lines", "parse_block", "format_ast">>

RECURSIVE RunsOf(_, _)
\* the ways to cut from..n into runs of neighbours: par_iter splits the slice in
\* halves down to runs that one thread folds over, file after file
RunsOf(from, n) ==
    IF from > n THEN {<<>>}
    ELSE UNION {{<<[i \in 1..(to - from + 1) |-> from + i - 1]>> \o others :
                    others \in RunsOf(to + 1, n)} : to \in from..n}

MainInit ==
    /\ \E n \in 1..MaxFiles :
         /\ files \in [1..n -> {"none"} \cup Range(Pipeline)]
         /\ leaves \in RunsOf(1, n)
         /\ done = [f \in 1..n |-> 0]
    /\ leafAt = [r \in 1..Len(leaves) |-> 1]
    /\ printed = {}
    /\ exited = Nothing

MainIdle ==
    /\ files = <<>>
    /\ leaves = <<>>
    /\ leafAt = <<>>
    /\ done = <<>>
    /\ printed = {}
    /\ exited = Nothing

\* the file run r stands at
Current(r) == leaves[r][leafAt[r]]

\* the closure given to for_each has unwound in run r: the files after the one that
\* panicked are not reached
Unwound(r) == leafAt[r] <= Len(leaves[r]) /\ done[Current(r)] = -1

\* run r has no more to do
Finished(r) == leafAt[r] > Len(leaves[r]) \/ Unwound(r)

\* one call of the pipeline of the file run r stands at returns Ok and is unwrapped
MainCall(r) ==
    /\ ~Finished(r)
    /\ done[Current(r)] < Len(Pipeline) - 1
    /\ files[Current(r)] # Pipeline[done[Current(r)] + 1]
    /\ done' = [done EXCEPT ![Current(r)] = @ + 1]
    /\ UNCHANGED <<files, leaves, leafAt, printed, exited, notMainVars>>

\* format_ast returns and println! prints the rendered text: the closure returns and
\* the run goes on to its next file
MainPrint(r) ==
    /\ ~Finished(r)
    /\ done[Current(r)] = Len(Pipeline) - 1
    /\ files[Current(r)] # Pipeline[Len(Pipeline)]
    /\ done' = [done EXCEPT ![Current(r)] = Len(Pipeline)]
    /\ printed' = printed \cup {Current(r)}
    /\ leafAt' = [leafAt EXCEPT ![r] = @ + 1]
    /\ UNCHANGED <<files, leaves, exited, notMainVars>>

\* a call of the pipeline fails: unwrap() (or format_ast itself) panics and the run
\* unwinds
MainPanic(r) ==
    /\ ~Finished(r)
    /\ files[Current(r)] = Pipeline[done[Current(r)] + 1]
    /\ done' = [done EXCEPT ![Current(r)] = -1]
    /\ UNCHANGED <<files, leaves, leafAt, printed, exited, notMainVars>>

\* for_each returns when every run has ended; a panic of a run is resumed in main,
\* otherwise main returns Ok(())
MainReturn ==
    /\ exited = Nothing
    /\ files # <<>>
    /\ \A r \in 1..Len(leaves) : Finished(r)
    /\ exited' = Some(IF \E r \in 1..Len(leaves) : Unwound(r) THEN "panic" ELSE "ok")
    /\ UNCHANGED <<files, leaves, leafAt, done, printed, notMainVars>>

MainNext ==
    \/ \E r \in 1..Len(leaves) : MainCall(r)
    \/ \E r \in 1..Len(leaves) : MainPrint(r)
    \/ \E r \in 1..Len(leaves) : MainPanic(r)
    \/ MainReturn

\* ------------------------------------------------- claims: property conflicts

\* the properties added before the last add_property
PrevProps == SubSeq(properties, 1, Len(properties) - 1)

\* Q's interacting set holds every member of P's
Subsumes(Q, P) == Range(InteractingSet(P)) \subseteq Range(InteractingSet(Q))

CompatibleSets == {Range(compatible_pairs[i]) : i \in 1..Len(compatible_pairs)}

\* the earlier properties that conflict with the one just added, and are not waived
UnwaivedConflicts ==
    {i \in 1..Len(PrevProps) :
        /\ Subsumes(PrevProps[i][1], lastProp)
        /\ {lastProp, PrevProps[i][1]} \notin CompatibleSets}

\* C4: adding property P reports a conflict exactly when some previously added Q
\* subsumes P's interacting set and {P, Q} is not an explicitly compatible pair;
\* the failure names such a Q.
C4_ConflictExactlyWhenUnwaived ==
    lastProp # None =>
        /\ panicked <=> UnwaivedConflicts # {}
        /\ panicked => \E i \in UnwaivedConflicts : addprop_rv = PrevProps[i][1]

\* C5: giving the same property name twice in one statement is always reported,
\* whatever was added in between.
C5_DuplicateAlwaysReported ==
    (lastProp # None /\ \E i \in 1..Len(PrevProps) : PrevProps[i][1] = lastProp)
        => panicked

\* ------------------------------------------------ claims: logical-line boundaries

RECURSIVE Classify(_, _, _, _, _, _, _)
\* One pass over the characters of d, giving each its role: "code", "string",
\* "comment", "cont" (a continuation backslash and its newline) or "break" (a newline
\* outside strings, at parenthesis depth zero, not taken by a continuation).
\* mode is "code", "string" or "comment"; i counts from 1.
Classify(d, i, mode, depth, delim, escape, acc) ==
    IF i > Len(d) THEN acc
    ELSE LET c == d[i]
             at(k) == IF k <= Len(d) THEN d[k] ELSE "eof"
         IN CASE mode = "comment" /\ c # "\n" ->
                    Classify(d, i + 1, "comment", depth, delim, FALSE, Append(acc, "comment"))
              [] mode = "string" /\ c = "\r" ->
                    Classify(d, i + 1, "string", depth, delim, escape, Append(acc, "string"))
              [] mode = "string" /\ c # "\r" /\ escape ->
                    Classify(d, i + 1, "string", depth, delim, FALSE, Append(acc, "string"))
              [] mode = "string" /\ c # "\r" /\ ~escape /\ Len(delim) = 1 /\ c = delim[1] ->
                    Classify(d, i + 1, "code", depth, delim, FALSE, Append(acc, "string"))
              [] mode = "string" /\ c # "\r" /\ ~escape /\ Len(delim) = 3 /\ c = delim[1]
                    /\ at(i + 1) = c /\ at(i + 2) = c ->
                    Classify(d, i + 3, "code", depth, delim, FALSE,
                             acc \o <<"string", "string", "string">>)
              [] mode = "string" /\ c # "\r" /\ ~escape
                    /\ ~(Len(delim) = 1 /\ c = delim[1])
                    /\ ~(Len(delim) = 3 /\ c = delim[1] /\ at(i + 1) = c /\ at(i + 2) = c) ->
                    Classify(d, i + 1, "string", depth, delim, c = "\\", Append(acc, "string"))
              [] mode # "string" /\ c = "\n" ->
                    Classify(d, i + 1, "code", depth, delim, FALSE,
                             Append(acc, IF depth = 0 THEN "break" ELSE "code"))
              [] mode = "code" /\ c = "\\" /\ at(i + 1) = "\n" ->
                    Classify(d, i + 2, "code", depth, delim, FALSE, acc \o <<"cont", "cont">>)
              [] mode = "code" /\ c = "#" ->
                    Classify(d, i + 1, "comment", depth, delim, FALSE, Append(acc, "comment"))
              [] mode = "code" /\ c \in QuoteChars /\ at(i + 1) = c /\ at(i + 2) = c ->
                    Classify(d, i + 3, "string", depth, <<c, c, c>>, FALSE,
                             acc \o <<"string", "string", "string">>)
              [] mode = "code" /\ c \in QuoteChars /\ ~(at(i + 1) = c /\ at(i + 2) = c) ->
                    Classify(d, i + 1, "string", depth, <<c>>, FALSE, Append(acc, "string"))
              [] mode = "code" /\ c \in {"(", "[", "{"} ->
                    Classify(d, i + 1, "code", depth + 1, delim, FALSE, Append(acc, "code"))
              [] mode = "code" /\ c \in {")", "]", "}"} ->
                    Classify(d, i + 1, "code", IF depth > 0 THEN depth - 1 ELSE 0, delim, FALSE,
                             Append(acc, "code"))
              [] OTHER ->
                    Classify(d, i + 1, "code", depth, delim, FALSE, Append(acc, "code"))

\* the role of every character of data
Roles == Classify(data, 1, "code", 0, <<>>, FALSE, <<>>)

\* the positions (from 0) of the newlines that end a logical line
ExpectedBreaks == {i - 1 : i \in {j \in 1..Len(Roles) : Roles[j] = "break"}}

RECURSIVE KeptText(_, _, _)
\* the characters of data at indexes i..j that are neither comment nor carriage return
KeptText(roles, i, j) ==
    IF i > j THEN <<>>
    ELSE (IF roles[i] = "comment" \/ data[i] = "\r" THEN <<>> ELSE <<data[i]>>)
         \o KeptText(roles, i + 1, j)

RECURSIVE ExpectedTexts(_, _, _)
\* the texts of the logical lines of data, blank ones dropped: from is the index at
\* which the current logical line starts, i the index examined
ExpectedTexts(roles, from, i) ==
    IF i > Len(roles) THEN <<>>
    ELSE IF roles[i] = "break"
    THEN LET text == KeptText(roles, from, i - 1)
         IN (IF NonBlank(text) THEN <<text>> ELSE <<>>) \o ExpectedTexts(roles, i + 1, i + 1)
    ELSE ExpectedTexts(roles, from, i + 1)

\* C8: a newline ends the current logical line exactly when it is outside every string
\* literal, at parenthesis depth zero and not taken by a continuation backslash; a
\* comment is left out of the text and neither ends nor joins logical lines.
C8_LogicalLineBoundaries ==
    /\ breaks = {p \in ExpectedBreaks : p < pos}
    /\ lll = "ok" =>
        [i \in 1..Len(result) |-> result[i][2]] = ExpectedTexts(Roles, 1, 1)

\* a newline inside parentheses, after a comment, joins; the one after ")" ends the line
C8_Witness ==
    /\ lll = "ok"
    /\ data = <<"(", "#", "\n", ")", "\n", "\n">>
    /\ breaks = {4, 5}
    /\ result = << <<1, <<"(", "\n", ")">> >> >>

\* ------------------------------------------------ claims: line numbers

\* the position (from 0) at which the logical line being read began: after the last
\* newline that ended a logical line
LineStart == IF breaks = {} THEN 0 ELSE 1 + CHOOSE p \in breaks : \A q \in breaks : q <= p

Rewritten(w, exactly) ==
    /\ Len(w) >= 3
    /\ w[1] = "_" /\ w[2] = "_"
    /\ exactly => w[3] # "_"
    /\ ~HasDunder(SubSeq(w, 3, Len(w)))

RECURSIVE WordEnd(_, _)
\* the last index of the run of word characters of the code that begins at index i
WordEnd(roles, i) ==
    IF i < Len(data) /\ roles[i + 1] = "code" /\ letterlike(data[i + 1])
    THEN WordEnd(roles, i + 1) ELSE i

RECURSIVE MungedText(_, _, _)
\* the text of the first logical line of data from index i on, its words rewritten by
\* the rule, its strings as they stand, its comments and carriage returns left out
MungedText(roles, i, exactly) ==
    IF i > Len(data) \/ roles[i] = "break" THEN <<>>
    ELSE IF roles[i] = "comment" \/ data[i] = "\r" THEN MungedText(roles, i + 1, exactly)
    ELSE IF roles[i] = "code" /\ letterlike(data[i])
    THEN LET e == WordEnd(roles, i)
             w == SubSeq(data, i, e)
         IN (IF Rewritten(w, exactly) THEN Prefix \o SubSeq(w, 3, Len(w)) ELSE w)
            \o MungedText(roles, e + 1, exactly)
    ELSE <<data[i]>> \o MungedText(roles, i + 1, exactly)

\* the texts given out are those of the rule
MungedBy(exactly) ==
    lll = "ok" =>
        [i \in 1..Len(result) |-> result[i][2]]
            = IF NonBlank(MungedText(Roles, 1, exactly))
              THEN <<MungedText(Roles, 1, exactly)>> ELSE <<>>

\* C22: outside strings and comments a word is rewritten to the prefix and the word
\* without its two leading underscores if and only if it begins with exactly two
\* underscores and holds no further pair of underscores; every other word stands
C22_MungedExactlyTwo == MungedBy(TRUE)

\* C22 as the code has it: a word is rewritten if and only if it is at least three
\* characters long, begins with two underscores, and what follows those two holds no
\* pair of underscores, so a word of three leading underscores is rewritten too
C22_MungedTwo == MungedBy(FALSE)

\* a word of three leading underscores has been rewritten, one underscore kept
C22_Witness ==
    /\ lll = "ok"
    /\ data = <<"_", "_", "_", "a", "\n", "\n">>
    /\ result = << <<1, Prefix \o <<"_", "a">> >> >>

\* ------------------------------------------------ claims: extractor failures

\* C18: a tab character at any position of the file text, in indentation, between
\* tokens, inside a string literal or inside a comment, makes list_logical_lines
\* fail: it never returns Ok for data that holds a tab
C18_TabAlwaysFails ==
    lll = "ok" => "\t" \notin Range(data)

\* the index of the first tab of d, from 1
FirstTab(d) == CHOOSE i \in 1..Len(d) : d[i] = "\t" /\ \A j \in 1..(i - 1) : d[j] # "\t"

\* the physical line the character at index i of d is on
PhysicalLine(d, i) == 1 + Cardinality({j \in 1..(i - 1) : d[j] = "\n"})

\* C19: when list_logical_lines fails because of a tab, the origin reported is the
\* physical line the first tab is on, however many lines precede it
C19_TabOriginIsFirstTabLine ==
    lll = "tab" => Unwrap(bail).line = PhysicalLine(data, FirstTab(data))

\* the file text ends inside a string literal, inside an open parenthesis group, or
\* with a continuation backslash as its last character; data is the file text with
\* the two newlines appended
EndsUnterminated ==
    \/ Roles[Len(data)] = "string"
    \/ Roles[Len(data)] = "code"
    \/ Len(data) > 2 /\ data[Len(data) - 2] = "\\" /\ Roles[Len(data) - 2] = "cont"

\* C20: list_logical_lines fails whenever the file text ends inside a string
\* literal, inside an open parenthesis group or with a continuation backslash as its
\* last character: it returns Ok for no such text
C20_UnterminatedAlwaysFails ==
    lll = "ok" => ~EndsUnterminated

\* ----------------------------------------------------- claims: block builder

\* the source depth of the line numbered n
LineDepth(n) == depth_split(lines[CHOOSE i \in 1..Len(lines) : lines[i][1] = n][2])[1]

RECURSIVE WellIndented(_, _)
\* every block of bs lies deeper than parentDepth, all at one depth, and so below
WellIndented(bs, parentDepth) ==
    \A i \in 1..Len(bs) :
        /\ LineDepth(bs[i].number) > parentDepth
        /\ LineDepth(bs[i].number) = LineDepth(bs[1].number)
        /\ WellIndented(bs[i].block, LineDepth(bs[i].number))

RECURSIVE Preorder(_)
\* the line numbers of a block list, parents before children
Preorder(bs) ==
    IF bs = <<>> THEN <<>>
    ELSE <<bs[1].number>> \o Preorder(bs[1].block) \o Preorder(Tail(bs))

RECURSIVE PopDeeper(_, _)
\* an indentation stack with the levels deeper than d closed
PopDeeper(stack, d) == IF Last(stack) > d THEN PopDeeper(SubSeq(stack, 1, Len(stack) - 1), d) ELSE stack

RECURSIVE FirstOffender(_, _, _)
\* the number of the first line of ls, from index i on, whose depth is neither that
\* of an open level nor deeper than the line before it; 0 when there is none
FirstOffender(ls, i, stack) ==
    IF i > Len(ls) THEN 0
    ELSE LET d == depth_split(ls[i][2])[1]
             popped == PopDeeper(stack, d)
         IN IF Last(popped) = d THEN FirstOffender(ls, i + 1, popped)
            ELSE IF popped = stack THEN FirstOffender(ls, i + 1, Append(stack, d))
            ELSE ls[i][1]

\* C7: group_logical_lines fails or returns a tree whose first line has depth 0,
\* whose children lie strictly deeper than their parent and share one depth; a line
\* whose depth matches no open level and is not deeper than the line before it
\* fails with a mismatch reported at that line; a first line of non-zero depth fails.
C7_IndentationInvariant ==
    grouped =>
        /\ gll.ok =>
            /\ LineDepth(gll.blocks[1].number) = 0
            /\ WellIndented(gll.blocks, -1)
            /\ Preorder(gll.blocks) = [i \in 1..Len(lines) |-> lines[i][1]]
        /\ LineDepth(lines[1][1]) # 0 => ~gll.ok
        /\ (LineDepth(lines[1][1]) = 0 /\ FirstOffender(lines, 2, <<0>>) # 0) =>
                (~gll.ok /\ gll.err = FirstOffender(lines, 2, <<0>>))

\* a line at depth 1 after a child at depth 2 is rejected at that line
C7_Witness ==
    /\ grouped
    /\ Len(lines) = 3
    /\ LineDepth(1) = 0 /\ LineDepth(2) = 2 /\ LineDepth(3) = 1
    /\ ~gll.ok /\ gll.err = 3

\* ------------------------------------------------------ claims: checkpoint / revert

\* C2: whatever token primitives and advance calls came after c = checkpoint(),
\* revert(c) puts line index, origin (file, number), text, sub-block list and position
\* back to their values at the checkpoint, and the end-of-block flag too.
C2_RevertRestoresCursor ==
    lexop = "revert" => Observable(cursor) = Unwrap(snapshot)

\* a cursor that ran past the end of its block after the checkpoint, and matched
\* tokens, is back on its line
C2_Witness ==
    /\ lexop = "revert"
    /\ {"advance", "eob", "token"} \subseteq sinceCp
    /\ ~cursor.eob
    /\ cursor.line = Some(0)
    /\ cursor.pos > 0

\* ------------------------------------------------------ claims: ATL statements

\* the names of the properties a list of properties holds from place n on
NamesFrom(props, n) == {props[i][1] : i \in (n + 1)..Len(props)}

\* C6: the property-conflict state is per statement: when add_property objects to a
\* property, as given twice or as conflicting, the property it names was added in
\* the statement being parsed, never in a statement before it, whether a newline or
\* a comma separates the two
C6_ConflictStatePerStatement ==
    IsSome(atlLast.objection) =>
        Unwrap(atlLast.objection).old
            \in NamesFrom(Unwrap(atlLast.objection).held, Len(atlLast.inherited))

\* the properties of the statements of a block, statement by statement
StatementProperties(statements) ==
    [i \in 1..Len(statements) |->
        IF IsSome(statements[i]) /\ Unwrap(statements[i]).type = "RawMultipurpose"
        THEN [j \in 1..Len(Unwrap(statements[i]).properties) |->
                 <<Unwrap(statements[i]).properties[j][1],
                   Unwrap(statements[i]).properties[j][2]>>]
        ELSE <<>>]

\* linear 1.0 xpos 100 followed by linear 1.0 xpos 200, on two lines or on one line
\* with a comma, has parsed to two statements without error
C6_Witness ==
    /\ atl.at = "done"
    /\ atl.lex.panic = ""
    /\ atlBlock \in {AtlBlockOf(<< <<AtlLinear100, <<>> >>, <<AtlLinear200, <<>> >> >>),
                     AtlBlockOf(<< <<AtlLinear100 \o <<",", " ">> \o AtlLinear200, <<>> >> >>)}
    /\ StatementProperties(atl.statements)
         = << << <<"xpos", <<"100">> >> >>, << <<"xpos", <<"200">> >> >> >>

\* the passes of the loop so far began in source order, no place twice
VisitedInOrder ==
    \A i \in 1..(Len(atlVisited) - 1) :
        \/ atlVisited[i][1] < atlVisited[i + 1][1]
        \/ atlVisited[i][1] = atlVisited[i + 1][1] /\ atlVisited[i][2] < atlVisited[i + 1][2]

\* C3: parsing a nested block leaves the parent cursor where it was: after the
\* nested parse of an ATL block or of the block under a warper's colon the parent
\* cursor is at the same line index with the same text as before it, and every line
\* of the parent block is parsed once and in source order
C3_ParentCursorKept ==
    /\ (atlLast.delegated /\ IsSome(atlLast.before) /\ IsSome(atlLast.after)
            /\ atl.at \in {"loop", "done"}) =>
          /\ Unwrap(atlLast.after).line = Unwrap(atlLast.before).line
          /\ Unwrap(atlLast.after).text = Unwrap(atlLast.before).text
    /\ atl.at \in {"loop", "done"} => VisitedInOrder
    /\ atl.at = "done" => {atlVisited[i][1] : i \in 1..Len(atlVisited)} = 0..(Len(atlBlock) - 1)

\* ------------------------------------------------ claims: expressions in a row

RECURSIVE ClauseKinds(_)
\* the clauses of the text of a statement, in order: "expression" for an expression
\* with or without its with clause, "pass", and "property"
ClauseKinds(t) ==
    IF Len(t) = 0 THEN <<>>
    ELSE IF t[1] = " " THEN ClauseKinds(Tail(t))
    ELSE IF t[1] = "pass" THEN <<"pass">> \o ClauseKinds(Tail(t))
    ELSE IF t[1] = "ypos" THEN <<"property">> \o ClauseKinds(SubSeq(t, 4, Len(t)))
    ELSE IF Len(t) >= 3 /\ t[3] = "with"
    THEN <<"expression">> \o ClauseKinds(SubSeq(t, 6, Len(t)))
    ELSE <<"expression">> \o ClauseKinds(Tail(t))

\* two expression clauses stand one directly after the other
TwoInARow(kinds) ==
    \E i \in 1..(Len(kinds) - 1) : kinds[i] = "expression" /\ kinds[i + 1] = "expression"

\* the property is given once at most, so that no rule of properties is broken
PropertyOnce(kinds) == Cardinality({i \in 1..Len(kinds) : kinds[i] = "property"}) <= 1

\* the statement of expressions that the block given holds
ExprStatement == atlBlock[1].text

\* C24: a statement in which two expression clauses stand one directly after the
\* other does not parse, a with clause after the first of them notwithstanding; one
\* in which pass or a property stands between any two of them parses, unless it gives
\* the property twice
C24_TwoExpressionsInARow ==
    (atlBlock # <<>> /\ atl.at \notin {"new", "loop"}) =>
        IF TwoInARow(ClauseKinds(ExprStatement))
        THEN atl.at = "panic"
        ELSE PropertyOnce(ClauseKinds(ExprStatement)) => atl.at = "done"

\* a with d pass b has parsed to one statement of two expressions
C24_Witness ==
    /\ atl.at = "done"
    /\ ExprStatement = <<"a", " ", "with", " ", "d", " ", "pass", " ", "b">>
    /\ Len(atl.statements) = 1
    /\ Unwrap(atl.statements[1]).expressions = << <<(<<"a">>), Some(<<"d">>)>>, <<(<<"b">>), Nothing>> >>

\* ------------------------------------------------ claims: progress of parse_atl

\* a pass of parse_atl's loop has run and has ended without a panic
PassReturned == atlVisited' # atlVisited /\ atl'.at \in {"loop", "done"}

\* C26: a pass of parse_atl's loop that returns never leaves the cursor on an earlier
\* line of the block, and leaves it on a later line unless a comma carries the line on,
\* in which case it leaves it further on in the line; so it is after a warper
\* statement with a block under it, too
C26_AtlProgress ==
    [][PassReturned =>
          \/ atl'.lex.line[1] > atl.lex.line[1]
          \/ /\ atl'.lex.line[1] = atl.lex.line[1]
             /\ atl'.lex.pos > atl.lex.pos
             /\ atl.lex.text[atl'.lex.pos] = ","]_vars

\* ------------------------------------------------------ claims: monologue paragraphs

RECURSIVE SplitOnBlankLine(_, _)
\* s.split("\n\n"): the pieces between the non-overlapping delimiters, left to right
SplitOnBlankLine(t, piece) ==
    IF Len(t) = 0 THEN <<piece>>
    ELSE IF Len(t) >= 2 /\ t[1] = "\n" /\ t[2] = "\n"
    THEN <<piece>> \o SplitOnBlankLine(SubSeq(t, 3, Len(t)), <<>>)
    ELSE SplitOnBlankLine(Tail(t), Append(piece, t[1]))

RECURSIVE Normalized(_)
\* every run of spaces and newlines becomes one space
Normalized(t) ==
    IF Len(t) = 0 THEN <<>>
    ELSE IF t[1] \in WhitespaceAtoms
    THEN <<" ">> \o Normalized(SubSeq(t, 1 + WhitespaceRun(t, 0), Len(t)))
    ELSE <<t[1]>> \o Normalized(Tail(t))

\* the non-empty paragraphs of a monologue, trimmed and normalized, in order
Paragraphs(content) ==
    LET pieces == SplitOnBlankLine(content, <<>>)
        kept == SelectSeq(pieces, LAMBDA p : Len(Trim(p)) > 0)
    IN [i \in 1..Len(kept) |-> Normalized(Trim(kept[i]))]

\* a node as the claim speaks of it: a dialogue node with its text, or a statement
NodeOfParagraph(n) ==
    IF n.type = "Say" THEN <<"say", n.what>> ELSE <<"statement", n.line>>

ExpectedOfParagraph(p) ==
    IF p = <<"{clear}">> THEN <<"statement", <<"nvl", " ", "clear">> >> ELSE <<"say", p>>

\* C9: a triple-quoted dialogue string is split on blank lines and gives one dialogue
\* node per non-empty paragraph, in order, each with whitespace-normalized text; a
\* paragraph equal to {clear} gives the statement "nvl clear" instead.
C9_OneNodePerParagraph ==
    (IsSome(sayResult) /\ Len(Paragraphs(SayContent(sayLine))) > 0) =>
        /\ Unwrap(sayResult).lex.panic = ""
        /\ [i \in 1..Len(Unwrap(sayResult).rv) |-> NodeOfParagraph(Unwrap(sayResult).rv[i])]
             = [i \in 1..Len(Paragraphs(SayContent(sayLine))) |->
                    ExpectedOfParagraph(Paragraphs(SayContent(sayLine))[i])]

\* ------------------------------------------------ claims: the end of a say line

\* C27: when the say statement parses, nothing but whitespace is left of the line
\* after the place the cursor reached, so that no text of the line is dropped; a line
\* of two strings gives a dialogue whose speaker is the first and whose text the second
C27_WholeLineAccounted ==
    (IsSome(sayResult) /\ Unwrap(sayResult).lex.panic = "") =>
        /\ Trim(Slice(sayLine, Unwrap(sayResult).lex.pos, Len(sayLine))) = <<>>
        /\ sayLine = <<"\"", "a", "\"", " ", "\"", "b", "\"">> =>
              /\ Len(Unwrap(sayResult).rv) = 1
              /\ Unwrap(sayResult).rv[1].who = Some(<<"\"", "a", "\"">>)
              /\ Unwrap(sayResult).rv[1].what = <<"b">>

\* ------------------------------------------------------ claims: files in parallel

\* C17: per-file failure isolation: when main has ended, every file whose own
\* pipeline does not fail has run to completion and its rendered text was printed,
\* whatever happened to the other files, and nothing was printed for a file whose
\* pipeline fails
C17_FailureIsolation ==
    IsSome(exited) =>
        printed = {f \in DOMAIN files : files[f] = "none"}

\* ------------------------------------------------------ claims: parameter lists

\* the places of the parameters of ps of one of the forms
Places(ps, forms) == {i \in 1..Len(ps) : ps[i].form \in forms}

\* the rules of a parameter list that the claim names
DuplicateName(ps) ==
    \E i, j \in Places(ps, {"named", "star", "kw"}) : i < j /\ ps[i].name = ps[j].name
NonDefaultAfterDefault(ps) ==
    \E i, j \in Places(ps, {"named"}) :
        /\ i < j /\ ps[i].default /\ ~ps[j].default
        /\ \A k \in Places(ps, {"star", "bare"}) : k > j
SlashTwice(ps) == Cardinality(Places(ps, {"slash"})) > 1
SlashFirst(ps) ==
    \E i \in Places(ps, {"slash"}) : \A j \in 1..(i - 1) : ps[j].form = "slash"
StarTwice(ps) == Cardinality(Places(ps, {"star", "bare"})) > 1
BareStarAlone(ps) ==
    \E i \in Places(ps, {"bare"}) : i = Len(ps) \/ ps[i + 1].form # "named"
KwDefault(ps) == \E i \in Places(ps, {"kw"}) : ps[i].default
AfterKw(ps) == \E i \in Places(ps, {"kw"}) : i < Len(ps)

BreaksNamedRule(ps) ==
    \/ DuplicateName(ps) \/ NonDefaultAfterDefault(ps) \/ SlashTwice(ps) \/ SlashFirst(ps)
    \/ StarTwice(ps) \/ BareStarAlone(ps) \/ KwDefault(ps) \/ AfterKw(ps)

\* two more rules the parser has
SlashAfterStar(ps) ==
    \E i \in Places(ps, {"star", "bare"}), j \in Places(ps, {"slash"}) : i < j
StarDefault(ps) == \E i \in Places(ps, {"star"}) : ps[i].default

\* parse_parameters failed
ParamsFailed == Unwrap(parsedParams).lex.panic # ""

\* C16 as stated: parse_parameters fails for every signature that breaks one of the
\* eight rules named, and accepts every signature that breaks none of them
C16_FailsExactlyOnNamedRules ==
    IsSome(parsedParams) => (ParamsFailed <=> BreaksNamedRule(signature))

\* C16 as amended: parse_parameters fails for every signature that breaks one of
\* the eight rules named or has a / after a * or a var-positional parameter with a
\* default, and accepts every other signature, returning one parameter for each
\* name written
C16_FailsExactlyOnRules ==
    IsSome(parsedParams) =>
        /\ ParamsFailed <=>
              (BreaksNamedRule(signature) \/ SlashAfterStar(signature)
                  \/ StarDefault(signature))
        /\ ~ParamsFailed =>
              /\ IsSome(Unwrap(parsedParams).rv)
              /\ [i \in 1..Len(Unwrap(Unwrap(parsedParams).rv).parameters) |->
                     Unwrap(Unwrap(parsedParams).rv).parameters[i].name]
                  = [i \in 1..Cardinality(Places(signature, {"named", "star", "kw"})) |->
                        signature[CHOOSE k \in Places(signature, {"named", "star", "kw"}) :
                            Cardinality({j \in Places(signature, {"named", "star", "kw"}) :
                                            j <= k}) = i].name]

\* (*, a, /) was refused: its / stands after the *
C16_Witness ==
    /\ IsSome(parsedParams)
    /\ [i \in 1..Len(signature) |-> signature[i].form] = <<"bare", "named", "slash">>
    /\ ~BreaksNamedRule(signature)
    /\ Unwrap(parsedParams).lex.panic = "/ must be ahead of *"

\* ---------------------------------------------------------- claims: dispatch

\* C11: when the leading words of a line match a trie path only in part and the node
\* reached has no grammar, the default say grammar is called with the cursor at the
\* start of the line
C11_FallbackFromLineStart ==
    (IsSome(dispatched) /\ Len(Unwrap(dispatched).path) > 0
        /\ ~Unwrap(dispatched).registered)
    => Unwrap(dispatched).parser = "Say" /\ Unwrap(dispatched).from = 0

\* ------------------------------------------------------------- claims: menus

\* the block given ends with a menu statement, and the body of that statement
EndsWithMenu == script # <<>> /\ script[Len(script)].text[1] = "menu"
MenuBody == script[Len(script)].block
IsChoiceLine(b) == Last(b.text) = ":"
IsCaptionLine(b) == b.text[1] = "\"" /\ Last(b.text) = "\""
IsSayItem(b) == b.text[1] = "e"
IsClause(b, k) == b.text[1] = k
ItemLines == SelectSeq(MenuBody, LAMBDA b : IsChoiceLine(b) \/ IsCaptionLine(b))

\* the Menu node returned
MenuNode == CHOOSE n \in Range(Unwrap(outcome)) : n.type = "Menu"

RECURSIVE NodesOf(_)
\* the nodes of a block of pass and label lines
NodesOf(block) ==
    [i \in 1..Len(block) |->
        IF block[i].text = <<"pass">>
        THEN [type |-> "Pass", loc |-> <<Filename, block[i].number>>]
        ELSE LabelNode(<<Filename, block[i].number>>, Some(<<block[i].text[3]>>),
                       NodesOf(block[i].block), Nothing, FALSE)]

\* C12: parse_menu fails when the body has no choice; otherwise the Menu node has one
\* item per caption or choice line, in order, each choice with its parsed block, and
\* has_caption is false when the body has neither a caption nor a say-item
C12_MenuItems ==
    (IsSome(outcome) /\ EndsWithMenu) =>
        /\ \E i \in 1..Len(MenuBody) : IsChoiceLine(MenuBody[i])
        /\ Len(MenuNode.items) = Len(ItemLines)
        /\ \A i \in 1..Len(ItemLines) :
              /\ MenuNode.items[i].label = Some(<<ItemLines[i].text[2]>>)
              /\ MenuNode.items[i].block =
                    IF IsChoiceLine(ItemLines[i]) THEN Some(NodesOf(ItemLines[i].block))
                    ELSE Nothing
        /\ (\A i \in 1..Len(MenuBody) : ~IsCaptionLine(MenuBody[i]) /\ ~IsSayItem(MenuBody[i]))
              => ~MenuNode.has_caption

\* a menu of the choices A and B, each with a pass body, was parsed
C12_Witness ==
    /\ IsSome(outcome) /\ EndsWithMenu
    /\ [i \in 1..Len(MenuBody) |-> MenuBody[i].text]
          = <<<<"\"", "A", "\"", ":">>, <<"\"", "B", "\"", ":">>>>
    /\ Len(MenuNode.items) = 2
    /\ ~MenuNode.has_caption

\* C13: a menu with two with lines, or with two set lines, fails to parse
C13_OneWithOneSet ==
    (IsSome(outcome) /\ EndsWithMenu) =>
        \A k \in {"with", "set"} :
            Cardinality({i \in 1..Len(MenuBody) : IsClause(MenuBody[i], k)}) <= 1

\* ------------------------------------------------------ claims: global label

\* C14: the global label of a cursor changes only when a label statement, or a menu
\* statement that declares a label, is parsed on that cursor, which is the cursor of
\* the innermost parse_block; the cursors of the calls around it keep theirs
C14_GlobalLabelScope ==
    [][\A i \in 1..Len(frames) :
          (i <= Len(frames') /\ frames'[i].lex.global_label # frames[i].lex.global_label)
          => /\ i = Len(frames)
             /\ Top.kind = "block" /\ ~Top.lex.eob
             /\ \/ Dispatch.parser = "Label"
                \/ Dispatch.parser = "Menu" /\ IsSome(frames'[i].lex.global_label)]_vars

\* ------------------------------------------------ claims: define and default

\* a line without the init, and the priority if any, that it begins with
AfterInit(t) ==
    IF t[1] # "init" \/ Len(t) < 3 THEN t
    ELSE IF t[3] \in IntegerAtoms THEN SubSeq(t, 5, Len(t)) ELSE SubSeq(t, 3, Len(t))

\* the integer written after the first word of a line, 0 when there is none
StatedPriority(t) == IF t[3] \in IntegerAtoms THEN isize_parse(<<t[3]>>) ELSE 0

\* the names of the dotted name of a define or default line
PathOf(t) ==
    SelectSeq(SubSeq(t, 2, (CHOOSE i \in 1..Len(t) : t[i] = "=") - 1),
              LAMBDA a : a \notin {" ", "."} \cup IntegerAtoms)

RECURSIVE StoreOf(_)
\* store.<dotted prefix> of the names given
StoreOf(path) ==
    IF Len(path) <= 1 THEN <<"store">>
    ELSE StoreOf(SubSeq(path, 1, Len(path) - 1)) \o <<".", path[Len(path) - 1]>>

\* node is the Define or Default node of the line t
IsBareNode(node, t) ==
    /\ node.type = (IF t[1] = "define" THEN "Define" ELSE "Default")
    /\ node.store = StoreOf(PathOf(t))
    /\ node.name = <<Last(PathOf(t))>>
    /\ t[1] = "define" => node.operator = "="

\* the innermost parse_block stands on a define or default line, or on an init line
\* that has one after it, and the step parses it
ParsesDefine ==
    /\ Running /\ Top.kind = "block" /\ ~Top.lex.eob
    /\ Len(AfterInit(Top.lex.text)) > 0
    /\ AfterInit(Top.lex.text)[1] \in {"define", "default"}
    /\ failure' = ""

\* the nodes the step added to the result of the innermost parse_block
Added == SubSeq(frames'[Len(frames)].nodes, Len(Top.nodes) + 1, Len(frames'[Len(frames)].nodes))

\* C15: outside an init context a define or default line gives one Init node, of the
\* stated priority or 0, around the one Define or Default node, whose store is
\* store.<dotted prefix> and whose name is the last component; inside an init block
\* it gives the bare node, and after init on the same line the bare node is the block
\* of that init and the cursor's init flag is what it was
C15_DefineDesugaring ==
    [][ParsesDefine =>
          /\ Len(frames') = Len(frames)
          /\ Len(Added) = 1
          /\ frames'[Len(frames)].lex.init = Top.lex.init
          /\ IF Top.lex.text[1] = "init"
             THEN /\ Added[1].type = "Init"
                  /\ Added[1].priority = StatedPriority(Top.lex.text)
                  /\ Len(Added[1].block) = 1
                  /\ IsBareNode(Added[1].block[1], AfterInit(Top.lex.text))
             ELSE IF Top.lex.init
             THEN IsBareNode(Added[1], Top.lex.text)
             ELSE /\ Added[1].type = "Init"
                  /\ Added[1].priority = StatedPriority(Top.lex.text)
                  /\ Len(Added[1].block) = 1
                  /\ IsBareNode(Added[1].block[1], Top.lex.text)]_vars

\* define config.name = "x" was parsed outside any init context, and a define was
\* parsed after init on its line and in an init block
C15_Witness ==
    /\ IsSome(outcome)
    /\ script[1].text = <<"define", " ", "config", ".", "name", " ", "=", " ", "\"", "x", "\"">>
    /\ Unwrap(outcome)[1].type = "Init"
    /\ Unwrap(outcome)[1].priority = 0
    /\ Unwrap(outcome)[1].block[1].type = "Define"
    /\ Unwrap(outcome)[1].block[1].store = <<"store", ".", "config">>
    /\ Unwrap(outcome)[1].block[1].name = <<"name">>
    /\ Unwrap(outcome)[1].block[1].operator = "="

\* ----------------------------------------------------- claims: show and scene

\* the statement given has a with clause, and a colon with a block
HasWithAndBlock ==
    /\ showLine # <<>>
    /\ \E i \in 1..Len(showLine.text) : showLine.text[i] = "with"
    /\ Len(showLine.sub) > 0

\* C10: a show or scene statement with a with clause and a colon with a block returns
\* the With marker, the Show or Scene node and the With marker, in that order, and
\* the block is parsed as ATL and attached to the Show or Scene node
C10_WithAndAtlBlock ==
    (showAt = "done" /\ HasWithAndBlock /\ Unwrap(shown).lex.panic = "")
    => /\ [i \in 1..Len(Unwrap(shown).rv) |-> Unwrap(shown).rv[i].type]
            \in {<<"With", "Show", "With">>, <<"With", "Scene", "With">>}
       /\ IsSome(Unwrap(shown).rv[2].atl)

\* ------------------------------------------------------------ claims: round trip

RECURSIVE Origins(_)
\* a tree without the origins of its nodes
Origins(ast) ==
    [i \in 1..Len(ast) |->
        IF ast[i].type = "Init"
        THEN [type |-> "Init", priority |-> ast[i].priority, block |-> Origins(ast[i].block)]
        ELSE [f \in DOMAIN ast[i] \ {"loc"} |-> ast[i][f]]]

\* C1: a script that parses is rendered by format_ast, the text rendered parses, and
\* the tree it parses to is the tree of the first parse but for the origins
C1_RoundTrip ==
    /\ renderPanic = ""
    /\ IsSome(firstTree) => failure = ""
    /\ (IsSome(firstTree) /\ IsSome(outcome)) => Origins(Unwrap(outcome)) = Origins(Unwrap(firstTree))

\* ------------------------------------------------ claims: munge_filename

RECURSIVE Escaped(_)
\* the stem with every space made an underscore, every letter, digit and underscore
\* kept, and every other character made 0x and its code
Escaped(t) ==
    IF Len(t) = 0 THEN <<>>
    ELSE (CASE t[1] = " " -> <<"_">>
            [] t[1] \in {"a", "r", "e", "n", "_"} -> <<t[1]>>
            [] t[1] = "-" -> <<"0", "x", "2", "d">>
            [] t[1] = "*" -> <<"0", "x", "2", "a">>
            [] t[1] = "." -> <<"0", "x", "2", "e">>) \o Escaped(Tail(t))

\* the stem that counts: without a trailing _ren for a .py file
CountedStem(p) ==
    IF p.ext = <<"p", "y">> /\ Len(p.stem) >= 4
       /\ SubSeq(p.stem, Len(p.stem) - 3, Len(p.stem)) = <<"_", "r", "e", "n">>
    THEN SubSeq(p.stem, 1, Len(p.stem) - 4) ELSE p.stem

\* C23: munge_filename gives _m1_, the escaped stem and __; the stem is that of the
\* base name, without a trailing _ren for .py files, and the directories and the
\* extension have no other part in the result
C23_MungeFilename ==
    IsSome(munged) =>
        Unwrap(munged) = <<"_", "m", "1", "_">> \o Escaped(CountedStem(mungePath)) \o <<"_", "_">>

\* a stem with a space, a dash and a star, in a directory whose name has a dot
C23_Witness ==
    /\ mungePath = [dirs |-> <<"a", " ", "b", "/", "c", ".", "d", "/">>,
                    stem |-> <<" ", "-", "*">>, ext |-> <<"r", "p", "y">>]
    /\ munged = Some(<<"_", "m", "1", "_", "_", "0", "x", "2", "d", "0", "x", "2", "a",
                       "_", "_">>)

\* ------------------------------------------------ claims: custom statements

\* C25: a custom statement parses to one UserStatement that holds the text of the line
\* as it stands and the block under the line, unparsed; it parses whether or not a
\* block stands under the line, and the cursor is then on the next line of its block
C25_UserStatementWithBlock ==
    IsSome(userParsed) =>
        /\ Unwrap(userParsed).lex.panic = ""
        /\ Len(Unwrap(userParsed).rv) = 1
        /\ Unwrap(userParsed).rv[1].type = "UserStatement"
        /\ Unwrap(userParsed).rv[1].line = userScript[1].text
        /\ Unwrap(userParsed).rv[1].block = userScript[1].block
        /\ IF Len(userScript) > 1
           THEN Unwrap(userParsed).lex.line = Some(1) /\ ~Unwrap(userParsed).lex.eob
           ELSE Unwrap(userParsed).lex.eob

\* ------------------------------------------------------ claims: the word cache

\* C28: in every cursor state the primitives reach, word() gives the result an
\* uncached word scan (rmatch of the word pattern) gives from that state and leaves the cursor at the same
\* position; with the end-of-block flag set, word() gives nothing.
C28_WordCacheIsPure ==
    cursor.panic = "" =>
        /\ word(cursor).rv = rmatch(cursor, "RE_WORD").rv
        /\ word(cursor).lex.pos = rmatch(cursor, "RE_WORD").lex.pos
        /\ cursor.eob => word(cursor).rv = Nothing

\* ------------------------------------------------ claims: python_block

\* the lines of a text every line of which ends with a newline
PyLines(t) == Bind(SplitLines(t, <<>>), LAMBDA ls : SubSeq(ls, 1, Len(ls) - 1))

RECURSIVE Indented(_)
Indented(d) == IF d = 0 THEN <<>> ELSE PyIndent \o Indented(d - 1)

RECURSIVE PyExpected(_, _, _)
\* where the physical lines of the blocks belong: the index from the statement's
\* line n, and the line there; d is the nesting level below the first
PyExpected(blocks, d, n) ==
    IF Len(blocks) = 0 THEN {}
    ELSE Bind(blocks[1], LAMBDA b :
            {<<b.number - n + k,
               (IF k = 0 THEN Indented(d) ELSE <<>>) \o SplitLines(b.text, <<>>)[k + 1]>> :
                k \in 0..Newlines(b.text)}
            \cup PyExpected(b.block, d + 1, n))
         \cup PyExpected(Tail(blocks), d, n)

\* C29: python_block keeps line numbers. The statement on line N, every line of its
\* nested block with number n has its text from line index n - N of the text
\* python_block gives, four spaces deeper for each nesting level below the first,
\* a text on several physical lines taking one line each; every other line is blank.
C29_PythonBlockLineNumbers ==
    IsSome(pyText) =>
        /\ IsSome(Unwrap(pyText))
        /\ Bind(PyLines(Unwrap(Unwrap(pyText))), LAMBDA ls :
           Bind(PyExpected(pyStatement.block, 0, pyStatement.number), LAMBDA expected :
              /\ \A e \in expected : e[1] < Len(ls) /\ ls[e[1] + 1] = e[2]
              /\ \A i \in 0..(Len(ls) - 1) :
                    i \notin {e[1] : e \in expected} => Range(ls[i + 1]) \subseteq {" "}))

\* a statement on line 3: a line on two physical lines after a comment line, a line
\* nested under it after a blank line, and a line of the first level right after
C29_Witness ==
    /\ pyStatement = Blk(3, <<"python", ":">>,
                         <<Blk(5, <<"(", "\n", ")">>, <<Blk(8, <<"a">>, <<>>)>>),
                           Blk(9, <<"a">>, <<>>)>>)
    /\ pyText = Some(Some(<<"\n", "\n", "(", "\n", ")", "\n", " ", " ", " ", " ", "\n",
                            " ", " ", " ", " ", "a", "\n", "a", "\n">>))

\* ------------------------------------------------ claims: a file without a line

RECURSIVE BlankOrComment(_, _)
\* t has nothing but spaces, newlines and comments; commented says that t begins
\* inside a comment
BlankOrComment(t, commented) ==
    IF Len(t) = 0 THEN TRUE
    ELSE IF t[1] = "\n" THEN BlankOrComment(Tail(t), FALSE)
    ELSE IF commented THEN BlankOrComment(Tail(t), TRUE)
    ELSE IF t[1] = "#" THEN BlankOrComment(Tail(t), TRUE)
    ELSE t[1] = " " /\ BlankOrComment(Tail(t), FALSE)

\* C30: a file without a logical line (empty, or of blank and comment lines only)
\* passes list_logical_lines, group_logical_lines and parse_block without a
\* failure, and gives no block and no node.
C30_EmptyFile ==
    (data # <<>> /\ BlankOrComment(data, FALSE)) =>
        /\ lll \notin {"tab", "unterminated"}
        /\ lll = "ok" => result = <<>>
        /\ failure = ""
        /\ IsSome(fileGrouped) => Unwrap(fileGrouped).ok /\ Unwrap(fileGrouped).blocks = <<>>
        /\ IsSome(outcome) => Unwrap(outcome) = <<>>

\* ------------------------------------------------------------ specifications

SpecPropsInit == PropInit /\ GllIdle /\ LllIdle /\ LexIdle /\ SayIdle /\ AtlIdle /\ MainIdle /\ ParamsIdle /\ TrieIdle /\ BlkIdle /\ ShowIdle /\ RoundIdle /\ NameIdle /\ UserIdle /\ PyIdle /\ FileIdle
SpecPropsNext == \E prop \in PropNames, expr \in PropExprs : AddProperty(prop, expr)
SpecProps == SpecPropsInit /\ [][SpecPropsNext]_vars

SpecGllInit == PropIdle /\ GllInit /\ LllIdle /\ LexIdle /\ SayIdle /\ AtlIdle /\ MainIdle /\ ParamsIdle /\ TrieIdle /\ BlkIdle /\ ShowIdle /\ RoundIdle /\ NameIdle /\ UserIdle /\ PyIdle /\ FileIdle
SpecGllNext == GroupLines
SpecGll == SpecGllInit /\ [][SpecGllNext]_vars

SpecLinesInit == PropIdle /\ GllIdle /\ LllInit /\ LexIdle /\ SayIdle /\ AtlIdle /\ MainIdle /\ ParamsIdle /\ TrieIdle /\ BlkIdle /\ ShowIdle /\ RoundIdle /\ NameIdle /\ UserIdle /\ PyIdle /\ FileIdle
SpecLines == SpecLinesInit /\ [][LllNext]_vars

SpecLexerInit == PropIdle /\ GllIdle /\ LllIdle /\ LexInit /\ SayIdle /\ AtlIdle /\ MainIdle /\ ParamsIdle /\ TrieIdle /\ BlkIdle /\ ShowIdle /\ RoundIdle /\ NameIdle /\ UserIdle /\ PyIdle /\ FileIdle
SpecLexer == SpecLexerInit /\ [][LexNext]_vars

SpecSayInit == PropIdle /\ GllIdle /\ LllIdle /\ LexIdle /\ SayInit /\ AtlIdle /\ MainIdle /\ ParamsIdle /\ TrieIdle /\ BlkIdle /\ ShowIdle /\ RoundIdle /\ NameIdle /\ UserIdle /\ PyIdle /\ FileIdle
SpecSay == SpecSayInit /\ [][SayStatement]_vars

SpecAtlInit == PropIdle /\ GllIdle /\ LllIdle /\ LexIdle /\ SayIdle /\ AtlInit /\ MainIdle /\ ParamsIdle /\ TrieIdle /\ BlkIdle /\ ShowIdle /\ RoundIdle /\ NameIdle /\ UserIdle /\ PyIdle /\ FileIdle
SpecAtl == SpecAtlInit /\ [][AtlNext]_vars

SpecMainInit == PropIdle /\ GllIdle /\ LllIdle /\ LexIdle /\ SayIdle /\ AtlIdle /\ MainInit /\ ParamsIdle /\ TrieIdle /\ BlkIdle /\ ShowIdle /\ RoundIdle /\ NameIdle /\ UserIdle /\ PyIdle /\ FileIdle
SpecMain == SpecMainInit /\ [][MainNext]_vars

SpecParamsInit == PropIdle /\ GllIdle /\ LllIdle /\ LexIdle /\ SayIdle /\ AtlIdle /\ MainIdle /\ ParamsInit /\ TrieIdle /\ BlkIdle /\ ShowIdle /\ RoundIdle /\ NameIdle /\ UserIdle /\ PyIdle /\ FileIdle
SpecParams == SpecParamsInit /\ [][ParseParameters]_vars

SpecTrieInit == PropIdle /\ GllIdle /\ LllIdle /\ LexIdle /\ SayIdle /\ AtlIdle /\ MainIdle /\ ParamsIdle /\ TrieInit /\ BlkIdle /\ ShowIdle /\ RoundIdle /\ NameIdle /\ UserIdle /\ PyIdle /\ FileIdle
SpecTrie == SpecTrieInit /\ [][ParseStatement]_vars

SpecBlkInit == PropIdle /\ GllIdle /\ LllIdle /\ LexIdle /\ SayIdle /\ AtlIdle /\ MainIdle /\ ParamsIdle /\ TrieIdle /\ BlkInit /\ ShowIdle /\ RoundIdle /\ NameIdle /\ UserIdle /\ PyIdle /\ FileIdle
SpecBlk == SpecBlkInit /\ [][BlkNext]_vars

SpecShowInit == PropIdle /\ GllIdle /\ LllIdle /\ LexIdle /\ SayIdle /\ AtlIdle /\ MainIdle /\ ParamsIdle /\ TrieIdle /\ BlkIdle /\ ShowInit /\ RoundIdle /\ NameIdle /\ UserIdle /\ PyIdle /\ FileIdle
SpecShow == SpecShowInit /\ [][ShowNext]_vars

SpecRoundInit == PropIdle /\ GllIdle /\ LllIdle /\ LexIdle /\ SayIdle /\ AtlIdle /\ MainIdle /\ ParamsIdle /\ TrieIdle /\ script \in RoundScripts /\ frames = <<>> /\ outcome = Nothing /\ failure = "" /\ ShowIdle /\ RoundInit /\ NameIdle /\ UserIdle /\ PyIdle /\ FileIdle
SpecRound == SpecRoundInit /\ [][RoundNext]_vars

SpecMungeInit == PropIdle /\ GllIdle /\ MungeInit /\ LexIdle /\ SayIdle /\ AtlIdle /\ MainIdle /\ ParamsIdle /\ TrieIdle /\ BlkIdle /\ ShowIdle /\ RoundIdle /\ NameIdle /\ UserIdle /\ PyIdle /\ FileIdle
SpecMunge == SpecMungeInit /\ [][LllNext]_vars

SpecNameInit == PropIdle /\ GllIdle /\ LllIdle /\ LexIdle /\ SayIdle /\ AtlIdle /\ MainIdle /\ ParamsIdle /\ TrieIdle /\ BlkIdle /\ ShowIdle /\ RoundIdle /\ NameInit /\ UserIdle /\ PyIdle /\ FileIdle
SpecName == SpecNameInit /\ [][MungeFilename]_vars

SpecExprsInit == PropIdle /\ GllIdle /\ LllIdle /\ LexIdle /\ SayIdle /\ ExprInit /\ MainIdle /\ ParamsIdle /\ TrieIdle /\ BlkIdle /\ ShowIdle /\ RoundIdle /\ NameIdle /\ UserIdle /\ PyIdle /\ FileIdle
SpecExprs == SpecExprsInit /\ [][AtlNext]_vars

SpecUserInit == PropIdle /\ GllIdle /\ LllIdle /\ LexIdle /\ SayIdle /\ AtlIdle /\ MainIdle /\ ParamsIdle /\ TrieIdle /\ BlkIdle /\ ShowIdle /\ RoundIdle /\ NameIdle /\ UserInit /\ PyIdle /\ FileIdle
SpecUser == SpecUserInit /\ [][ParseUserStatement]_vars

SpecSayTailInit == PropIdle /\ GllIdle /\ LllIdle /\ LexIdle /\ SayTailInit /\ AtlIdle /\ MainIdle /\ ParamsIdle /\ TrieIdle /\ BlkIdle /\ ShowIdle /\ RoundIdle /\ NameIdle /\ UserIdle /\ PyIdle /\ FileIdle
SpecSayTail == SpecSayTailInit /\ [][SayStatement]_vars

SpecPyInit == PropIdle /\ GllIdle /\ LllIdle /\ LexIdle /\ SayIdle /\ AtlIdle /\ MainIdle /\ ParamsIdle /\ TrieIdle /\ BlkIdle /\ ShowIdle /\ RoundIdle /\ NameIdle /\ UserIdle /\ PyInit /\ FileIdle
SpecPy == SpecPyInit /\ [][PythonBlock]_vars

SpecFileInit == PropIdle /\ GllIdle /\ LllInit /\ LexIdle /\ SayIdle /\ AtlIdle /\ MainIdle /\ ParamsIdle /\ TrieIdle /\ BlkIdle /\ ShowIdle /\ RoundIdle /\ NameIdle /\ UserIdle /\ PyIdle /\ FileInit
SpecFile == SpecFileInit /\ [][FileNext]_vars

=============================================================================
